---- MODULE Spec2Model ----
(***************************************************************************)
(* Model of the hyperparameter-optimisation layer of                       *)
(* ludwig/utils/hyperopt_utils.py: the search strategies (RandomStrategy,  *)
(* PySOTStrategy), and the executors that drive them (SerialExecutor,      *)
(* ParallelExecutor, FiberExecutor).                                       *)
(*                                                                         *)
(* Two specifications share the strategy definitions:                      *)
(*   SpecStrategy  a client calling the strategy API in any order          *)
(*   Spec          one execute() call of an executor                       *)
(***************************************************************************)
EXTENDS Integers, Sequences, FiniteSets, Bags, TLC

VARIABLES
    hyperopt_strategy,    \* the HyperoptStrategy object (its fields)
    calls,                \* history of the API calls made on the strategy
    handed_out,           \* history: the samples sample() has returned
    update_calls,         \* history: the (sample, score) pairs given to update()
    executor,             \* which HyperoptExecutor subclass runs execute()
    pc,                   \* position of the controlling process in execute()
    sampled_parameters,   \* execute(): local sampled_parameters
    metric_scores,        \* execute(): local metric_scores
    hyperopt_parameters,  \* ParallelExecutor.execute(): local hyperopt_parameters
    tasks,                \* the trials of the current loop iteration / pool.map
    hyperopt_results,     \* execute(): local hyperopt_results
    returned,             \* the list execute() returned (once pc = "returned")
    gpus,                 \* execute() argument gpus, split into device ids
    num_workers,          \* ParallelExecutor / FiberExecutor num_workers
    gpu_fraction,         \* execute() local gpu_fraction, a rational <<p, q>>
    queue,                \* ParallelExecutor.queue: the device tokens
    queue_at_batch,       \* history: queue contents when the batch was sampled
    trial_runner,         \* what train_and_eval_on_split does for each sample
    model_definition,     \* the caller's model definition (the object itself)
    completed,            \* history: the trials of the pool.map in completion order
    dispatched,           \* history: what the Trial Runner was called with, in order
    substitute_arg,       \* substitute_parameters(): its argument parameters
    parsed_parameters,    \* substitute_parameters(): what get_parameters_dict returned
    modified_model_definition,  \* what substitute_parameters() returned
    raised,               \* the exception that left the last call, or None
    hyperopt_params,      \* update_hyperopt_params_with_defaults(): its argument
    resolved,             \* the classes the registries answered
    np_random,            \* the state of numpy's global random generator
    instances             \* the RandomStrategy objects constructed so far

stratVars == <<hyperopt_strategy, calls, handed_out, update_calls>>

execVars == <<executor, pc, sampled_parameters, metric_scores,
              hyperopt_parameters, tasks, hyperopt_results, returned,
              gpus, num_workers, gpu_fraction, queue, queue_at_batch,
              trial_runner, model_definition, completed, dispatched>>

utilVars == <<substitute_arg, parsed_parameters, modified_model_definition, raised,
          hyperopt_params, resolved, np_random, instances>>

vars == <<hyperopt_strategy, calls, handed_out, update_calls,
          executor, pc, sampled_parameters, metric_scores,
          hyperopt_parameters, tasks, hyperopt_results, returned,
          gpus, num_workers, gpu_fraction, queue, queue_at_batch,
          trial_runner, model_definition, completed, dispatched,
          substitute_arg, parsed_parameters, modified_model_definition, raised,
          hyperopt_params, resolved, np_random, instances>>

(***************************************************************************)
(* Bounds                                                                  *)
(***************************************************************************)
MaxSamples == 3

MaxBatch == 2

MaxCalls == 2

\* the largest budget of a run in GPU mode
MaxGpuSamples == 2

MaxUpdates == 1

MaxWorkers == 2

MaxGpus == 2

\* the most parameters in a sample given to substitute_parameters
MaxItems == 2

\* the most RandomStrategy objects one program constructs
MaxInstances == 2

(***************************************************************************)
(* Values                                                                  *)
(***************************************************************************)
MAXIMIZE == "maximize"

MINIMIZE == "minimize"

None == "None"

\* gpus=None: no device list
NoGpus == <<>>

\* a trial that has no evaluation stats yet
NoStats == <<>>

\* the Trial Runner raising instead of returning stats
Raises == -1

\* A parameter space: each parameter name (its dotted path, kept as the
\* sequence of its segments) with the values it may take.
ParameterSpace == [n \in {<<"combiner", "num_fc_layers">>} |-> {1, 2, 3}]

\* The space the strategies are built on when they are exercised alone.
SmallParameterSpace == [n \in {<<"combiner", "num_fc_layers">>} |-> {1, 2}]

\* The parameter assignments of a space (what JointSpace.unwarp can give).
SampleSpace(parameters) ==
    {s \in [DOMAIN parameters -> UNION {parameters[n] : n \in DOMAIN parameters}] :
        \A n \in DOMAIN s : s[n] \in parameters[n]}

\* Metric scores, in tenths.
MetricScores == {5, 7, 9}

StrategyTypes == {"random", "pysot"}

RECURSIVE SumSeq(_)
SumSeq(s) == IF s = <<>> THEN 0 ELSE Head(s) + SumSeq(Tail(s))

SeqToBag(s) == [x \in {s[i] : i \in DOMAIN s} |-> Cardinality({i \in DOMAIN s : s[i] = x})]

(***************************************************************************)
(* Python values: a scalar, or a dict from keys to values.  A model        *)
(* definition is a dict of sections; its two feature lists are kept as     *)
(* dicts from each feature's name to the feature's other keys.  A sample   *)
(* given to substitute_parameters is the list of its (name, value) items   *)
(* in iteration order, a name being the list of its dot-separated          *)
(* segments.                                                               *)
(***************************************************************************)
Scalar(v) == [kind |-> "scalar", v |-> v, items |-> <<>>]

Dict(items) == [kind |-> "dict", v |-> 0, items |-> items]

EmptyDict == Dict(<<>>)

\* isinstance(x, dict)
IsDict(x) == x.kind = "dict"

\* key in d
Has(d, key) == key \in DOMAIN d.items

\* d[key] = value
SetItem(d, key, value) == Dict((key :> value) @@ d.items)

\* A call that returned value / that an exception left.
Success(value) == [raised |-> None, value |-> value]

Failure(exc) == [raised |-> exc, value |-> EmptyDict]

\* Mutant: every segment but the last starts a new dict.
RECURSIVE NestedAssign_FreshDict(_, _, _)
NestedAssign_FreshDict(curr_dict, name_list, value) ==
    IF ~IsDict(curr_dict)
    THEN Failure(IF Len(name_list) = 1 THEN "TypeError" ELSE "AttributeError")
    ELSE IF Len(name_list) = 1
         THEN Success(SetItem(curr_dict, Head(name_list), value))
         ELSE LET name_elem == Head(name_list)
                  r == NestedAssign_FreshDict(EmptyDict, Tail(name_list), value)
              IN  IF r.raised # None THEN r
                  ELSE Success(SetItem(curr_dict, name_elem, r.value))

\* The body of get_parameters_dict's loops for one name: value is written
\* at the path name_list under curr_dict, through the dicts already there.
RECURSIVE NestedAssign(_, _, _)
NestedAssign(curr_dict, name_list, value) ==
    IF ~IsDict(curr_dict)
    THEN Failure(IF Len(name_list) = 1 THEN "TypeError" ELSE "AttributeError")
    ELSE IF Len(name_list) = 1
         THEN Success(SetItem(curr_dict, Head(name_list), value))
         ELSE LET name_elem == Head(name_list)
                  name_dict == IF Has(curr_dict, name_elem)
                               THEN curr_dict.items[name_elem] ELSE EmptyDict
                  r == NestedAssign(name_dict, Tail(name_list), value)
              IN  IF r.raised # None THEN r
                  ELSE Success(SetItem(curr_dict, name_elem, r.value))

RECURSIVE get_parameters_dict_loop(_, _)
get_parameters_dict_loop(parameters_dict, items) ==
    IF items = <<>> THEN Success(parameters_dict)
    ELSE LET r == NestedAssign(parameters_dict, Head(items)[1], Head(items)[2]) IN
         IF r.raised # None THEN r
         ELSE get_parameters_dict_loop(r.value, Tail(items))

get_parameters_dict(items) == get_parameters_dict_loop(EmptyDict, items)

\* Mutant: the sub-keys of a dict value are not written.
DictKeys_None(params) == {}

\* The keys of params whose value is a dict with sub-keys to write.
DictKeys(params) ==
    {key \in DOMAIN params.items :
        IsDict(params.items[key]) /\ DOMAIN params.items[key].items # {}}

\* The keys of params whose value is not a dict.
ScalarKeys(params) == {key \in DOMAIN params.items : ~IsDict(params.items[key])}

\* Mutant: parameters_dict[name] is read without the test `name in`.
set_values_NoMembershipTest(model_dict, name, parameters_dict) ==
    IF ~Has(parameters_dict, name) THEN Failure("KeyError")
    ELSE Success(model_dict)

\* set_values: the writes touch different keys, so they are made at once.
set_values(model_dict, name, parameters_dict) ==
    IF ~Has(parameters_dict, name) THEN Success(model_dict)
    ELSE LET params == parameters_dict.items[name] IN
         IF ~IsDict(params) THEN Failure("AttributeError")
         ELSE IF DictKeys(params) \cup ScalarKeys(params) = {} THEN Success(model_dict)
         ELSE IF ~IsDict(model_dict) THEN Failure("TypeError")
         ELSE IF \E key \in DictKeys(params) : ~Has(model_dict, key)
              THEN Failure("KeyError")
         ELSE IF \E key \in DictKeys(params) : ~IsDict(model_dict.items[key])
              THEN Failure("TypeError")
         ELSE Success(Dict(
                [key \in DOMAIN model_dict.items \cup ScalarKeys(params) |->
                    IF key \in ScalarKeys(params) THEN params.items[key]
                    ELSE IF key \in DictKeys(params)
                         THEN Dict(params.items[key].items @@ model_dict.items[key].items)
                         ELSE model_dict.items[key]]))

\* Mutant: every feature is looked up under the combiner's name.
SetFeatureValues_AsCombiner(features, parameters_dict) ==
    LET r == [name \in DOMAIN features.items |->
                 set_values(features.items[name], "combiner", parameters_dict)]
        failed == {name \in DOMAIN r : r[name].raised # None}
    IN  IF failed # {} THEN r[CHOOSE name \in failed : TRUE]
        ELSE Success(Dict([name \in DOMAIN r |-> r[name].value]))

\* for feature in model_definition[...]: set_values(feature, feature["name"], ...)
SetFeatureValues(features, parameters_dict) ==
    LET r == [name \in DOMAIN features.items |->
                 set_values(features.items[name], name, parameters_dict)]
        failed == {name \in DOMAIN r : r[name].raised # None}
    IN  IF failed # {} THEN r[CHOOSE name \in failed : TRUE]
        ELSE Success(Dict([name \in DOMAIN r |-> r[name].value]))

FeatureLists == {"input_features", "output_features"}

\* Mutant: one more section is gone through.
Sections_AndOther == <<"input_features", "output_features", "combiner", "training",
                       "preprocessing", "other">>

\* The sections substitute_parameters goes through, in its order.
Sections == <<"input_features", "output_features", "combiner", "training",
              "preprocessing">>

\* Lines 733-739 from the section Head(sections) on.
RECURSIVE substitute_parameters_from(_, _, _)
substitute_parameters_from(definition, sections, parameters_dict) ==
    IF sections = <<>> THEN Success(definition)
    ELSE LET section == Head(sections) IN
         IF ~Has(definition, section) THEN Failure("KeyError")
         ELSE LET r == IF section \in FeatureLists
                       THEN SetFeatureValues(definition.items[section], parameters_dict)
                       ELSE set_values(definition.items[section], section, parameters_dict)
              IN  IF r.raised # None THEN r
                  ELSE substitute_parameters_from(
                           SetItem(definition, section, r.value), Tail(sections),
                           parameters_dict)

substitute_parameters(definition, items) ==
    LET parameters_dict == get_parameters_dict(items) IN
    IF parameters_dict.raised # None THEN parameters_dict
    ELSE substitute_parameters_from(definition, Sections, parameters_dict.value)

\* parameters.items() of a sample of the strategy
RECURSIVE ItemsOf(_, _)
ItemsOf(s, names) ==
    IF names = {} THEN <<>>
    ELSE LET name == CHOOSE n \in names : TRUE IN
         <<<<name, Scalar(s[name])>>>> \o ItemsOf(s, names \ {name})

Items(s) == ItemsOf(s, DOMAIN s)

(***************************************************************************)
(* HyperoptStrategy and its two subclasses                                 *)
(***************************************************************************)
\* RandomStrategy.__init__: `samples` is the list _determine_samples drew.
RandomStrategy(goal, parameters, n, drawn) ==
    [type |-> "random", goal |-> goal, parameters |-> parameters, num_samples |-> n,
     samples |-> drawn, sampled_so_far |-> 0, observed |-> <<>>]

\* _determine_samples: num_samples draws, each any point of the space.
DetermineSamples(parameters, n) == [1..n -> SampleSpace(parameters)]

\* PySOTStrategy.__init__; `observed` is the state of the pysot optimizer.
PySOTStrategy(goal, parameters, n) ==
    [type |-> "pysot", goal |-> goal, parameters |-> parameters, num_samples |-> n,
     samples |-> <<>>, sampled_so_far |-> 0, observed |-> <<>>]

\* Mutant: the counter comparison is off by one.
RandomStrategy_finished_OffByOne(s) == s.sampled_so_far > Len(s.samples)

RandomStrategy_finished(s) == s.sampled_so_far >= Len(s.samples)

\* Mutant: the budget is compared with = instead of >=.
PySOTStrategy_finished_Equal(s) == s.sampled_so_far = s.num_samples

PySOTStrategy_finished(s) == s.sampled_so_far >= s.num_samples

finished(s) ==
    IF s.type = "random" THEN RandomStrategy_finished(s) ELSE PySOTStrategy_finished(s)

\* The result of a call: raised is the exception type or None.
Raise(exc, s) == [raised |-> exc, value |-> <<>>, strategy |-> s]

Return(v, s) == [raised |-> None, value |-> v, strategy |-> s]

RandomStrategy_sample(s) ==
    IF s.sampled_so_far >= Len(s.samples)
    THEN Raise("IndexError", s)
    ELSE Return(s.samples[s.sampled_so_far + 1],
                [s EXCEPT !.sampled_so_far = @ + 1])

\* suggestion: what pysot_optimizer.suggest(n_suggestions=1)[0] answers.
PySOTStrategy_sample(s, suggestion) ==
    Return(suggestion, [s EXCEPT !.sampled_so_far = @ + 1])

sample(s, suggestion) ==
    IF s.type = "random" THEN RandomStrategy_sample(s)
    ELSE PySOTStrategy_sample(s, suggestion)

\* Mutant: the IndexError is re-raised whatever was collected.
RECURSIVE sample_batch_loop_AlwaysRaise(_, _, _, _, _)
sample_batch_loop_AlwaysRaise(s, batch_size, i, samples, suggestions) ==
    IF i > batch_size THEN Return(samples, s)
    ELSE LET r == sample(s, suggestions[i]) IN
         IF r.raised = "IndexError"
         THEN Raise("IndexError", r.strategy)
         ELSE sample_batch_loop_AlwaysRaise(r.strategy, batch_size, i + 1,
                                            Append(samples, r.value), suggestions)

\* The for loop of sample_batch from iteration i on; samples is the list
\* collected so far.  After a swallowed IndexError the loop goes on.
RECURSIVE sample_batch_loop(_, _, _, _, _)
sample_batch_loop(s, batch_size, i, samples, suggestions) ==
    IF i > batch_size THEN Return(samples, s)
    ELSE LET r == sample(s, suggestions[i]) IN
         IF r.raised = "IndexError"
         THEN IF samples = <<>>
              THEN Raise("IndexError", r.strategy)
              ELSE sample_batch_loop(r.strategy, batch_size, i + 1, samples, suggestions)
         ELSE sample_batch_loop(r.strategy, batch_size, i + 1,
                                Append(samples, r.value), suggestions)

sample_batch(s, batch_size, suggestions) ==
    sample_batch_loop(s, batch_size, 1, <<>>, suggestions)

\* Mutant: update moves on to the next pre-drawn sample.
RandomStrategy_update_Skips(s, sampled, metric_score) ==
    [s EXCEPT !.sampled_so_far = @ + 1]

\* RandomStrategy.update: pass
RandomStrategy_update(s, sampled, metric_score) == s

PySOTStrategy_update(s, sampled, metric_score) ==
    [s EXCEPT !.observed = Append(@, <<sampled, metric_score>>)]

update(s, sampled, metric_score) ==
    IF s.type = "random" THEN RandomStrategy_update(s, sampled, metric_score)
    ELSE PySOTStrategy_update(s, sampled, metric_score)

RECURSIVE update_batch(_, _)
update_batch(s, pairs) ==
    IF pairs = <<>> THEN s
    ELSE update_batch(update(s, Head(pairs)[1], Head(pairs)[2]), Tail(pairs))

(***************************************************************************)
(* SpecStrategy: a client that calls the strategy API in any order         *)
(***************************************************************************)
Goals == {MINIMIZE, MAXIMIZE}

\* No executor exists.
NoExecutor ==
    /\ executor = None
    /\ sampled_parameters = <<>>
    /\ metric_scores = <<>>
    /\ hyperopt_parameters = <<>>
    /\ tasks = <<>>
    /\ hyperopt_results = <<>>
    /\ returned = <<>>
    /\ gpus = NoGpus
    /\ num_workers = 0
    /\ gpu_fraction = <<1, 1>>
    /\ queue = <<>>
    /\ queue_at_batch = <<>>
    /\ trial_runner = <<>>
    /\ completed = <<>>
    /\ dispatched = <<>>

\* execute() has not been called: the executor's variables stay put.
ExecIdle ==
    /\ NoExecutor
    /\ pc = "idle"
    /\ model_definition = EmptyDict

\* No utility function has been called.
UtilIdle ==
    /\ substitute_arg = <<>>
    /\ parsed_parameters = EmptyDict
    /\ modified_model_definition = EmptyDict
    /\ raised = None
    /\ hyperopt_params = <<>>
    /\ resolved = <<>>
    /\ np_random = 0
    /\ instances = <<>>

NewStrategy(s) ==
    /\ hyperopt_strategy = s
    /\ calls = <<>>
    /\ handed_out = <<>>
    /\ update_calls = <<>>

\* A strategy as its constructor leaves it, on the space parameters with a
\* budget of at most max_samples.
ConstructStrategy(parameters, max_samples) ==
    \E goal \in Goals, n \in 0..max_samples :
        \/ \E drawn \in DetermineSamples(parameters, n) :
              NewStrategy(RandomStrategy(goal, parameters, n, drawn))
        \/ NewStrategy(PySOTStrategy(goal, parameters, n))

InitStrategy ==
    /\ ConstructStrategy(SmallParameterSpace, MaxSamples)
    /\ ExecIdle
    /\ UtilIdle

Call(op, k, r) ==
    [op |-> op, k |-> k, fin |-> finished(hyperopt_strategy),
     raised |-> r.raised, n |-> Len(r.value)]

\* strategy.sample()
CallSample ==
    /\ Len(calls) < MaxCalls
    /\ \E suggestion \in SampleSpace(hyperopt_strategy.parameters) :
          LET r == sample(hyperopt_strategy, suggestion) IN
          /\ hyperopt_strategy' = r.strategy
          /\ handed_out' = IF r.raised = None THEN Append(handed_out, r.value)
                           ELSE handed_out
          /\ calls' = Append(calls, [op |-> "sample", k |-> 1,
                                     fin |-> finished(hyperopt_strategy),
                                     raised |-> r.raised,
                                     n |-> IF r.raised = None THEN 1 ELSE 0])
    /\ UNCHANGED update_calls
    /\ UNCHANGED execVars
    /\ UNCHANGED utilVars

\* strategy.sample_batch(batch_size)
CallSampleBatch ==
    /\ Len(calls) < MaxCalls
    /\ \E batch_size \in 1..MaxBatch :
       \E suggestions \in [1..batch_size -> SampleSpace(hyperopt_strategy.parameters)] :
          LET r == sample_batch(hyperopt_strategy, batch_size, suggestions) IN
          /\ hyperopt_strategy' = r.strategy
          /\ handed_out' = handed_out \o r.value
          /\ calls' = Append(calls, Call("sample_batch", batch_size, r))
    /\ UNCHANGED update_calls
    /\ UNCHANGED execVars
    /\ UNCHANGED utilVars

\* strategy.update(sampled_parameters, metric_score)
CallUpdate ==
    /\ Len(calls) < MaxCalls
    /\ Len(update_calls) < MaxUpdates
    /\ \E sampled \in SampleSpace(hyperopt_strategy.parameters),
          metric_score \in MetricScores :
          /\ hyperopt_strategy' = update(hyperopt_strategy, sampled, metric_score)
          /\ update_calls' = Append(update_calls, <<sampled, metric_score>>)
          /\ calls' = Append(calls, [op |-> "update", k |-> 1,
                                     fin |-> finished(hyperopt_strategy),
                                     raised |-> None, n |-> 0])
    /\ UNCHANGED handed_out
    /\ UNCHANGED execVars
    /\ UNCHANGED utilVars

\* strategy.update_batch(pairs)
CallUpdateBatch ==
    /\ Len(calls) < MaxCalls
    /\ \E n \in 0..MaxBatch :
       \E pairs \in [1..n -> SampleSpace(hyperopt_strategy.parameters) \X MetricScores] :
          /\ Len(update_calls) + n <= MaxUpdates
          /\ hyperopt_strategy' = update_batch(hyperopt_strategy, pairs)
          /\ update_calls' = update_calls \o pairs
          /\ calls' = Append(calls, [op |-> "update_batch", k |-> n,
                                     fin |-> finished(hyperopt_strategy),
                                     raised |-> None, n |-> 0])
    /\ UNCHANGED handed_out
    /\ UNCHANGED execVars
    /\ UNCHANGED utilVars

NextStrategy == CallSample \/ CallSampleBatch \/ CallUpdate \/ CallUpdateBatch

SpecStrategy == InitStrategy /\ [][NextStrategy]_vars

(***************************************************************************)
(* Properties of the strategies (checked under SpecStrategy)               *)
(***************************************************************************)
LastCall == calls[Len(calls)]

IsRandom == hyperopt_strategy.type = "random"

\* C3: a RandomStrategy built with num_samples = N has handed out, at any
\* time, a prefix of its N pre-drawn samples; finished() is false while
\* fewer than N were returned and true once N were, and no sample() call
\* returns an (N+1)-th sample.
C3_RandomBudget ==
    IsRandom =>
        /\ Len(handed_out) <= hyperopt_strategy.num_samples
        /\ Len(handed_out) = hyperopt_strategy.sampled_so_far
        /\ handed_out = SubSeq(hyperopt_strategy.samples, 1, Len(handed_out))
        /\ finished(hyperopt_strategy) <=>
               (Len(handed_out) = hyperopt_strategy.num_samples)

\* All N samples were returned and a further sample() was refused.
C3_Witness ==
    /\ IsRandom
    /\ hyperopt_strategy.num_samples >= 1
    /\ Len(handed_out) = hyperopt_strategy.num_samples
    /\ calls # <<>>
    /\ LastCall.op = "sample"
    /\ LastCall.raised = "IndexError"

\* The history is a client that only ever called sample_batch(k), each time
\* after finished() answered false.
BatchDrive(k) ==
    \A i \in DOMAIN calls :
        calls[i].op = "sample_batch" /\ calls[i].k = k /\ ~calls[i].fin

BatchSizes == [i \in DOMAIN calls |-> calls[i].n]

\* C4: sample_batch(k) called repeatedly while finished() is false returns
\* batches whose sizes sum to the budget N; every batch but the last has
\* k samples and the last has between 1 and k.
C4_BatchesSumToBudget ==
    \A k \in 1..MaxBatch :
        (BatchDrive(k) /\ finished(hyperopt_strategy)) =>
            /\ SumSeq(BatchSizes) = hyperopt_strategy.num_samples
            /\ \A i \in DOMAIN calls :
                  /\ calls[i].raised = None
                  /\ i < Len(calls) => calls[i].n = k
                  /\ i = Len(calls) => calls[i].n \in 1..k

\* The strategy after j successful sample() calls from s.
RECURSIVE AfterSamples(_, _)
AfterSamples(s, j) ==
    IF j = 0 THEN s
    ELSE AfterSamples(sample(s, CHOOSE g \in SampleSpace(s.parameters) : TRUE).strategy,
                      j - 1)

Exhausted(s) ==
    \A g \in SampleSpace(s.parameters) : sample(s, g).raised = "IndexError"

\* C5: a sample_batch(k) call whose first sample() signals exhaustion raises
\* IndexError and hands out nothing; one in which a later sample() signals
\* exhaustion returns the partial batch collected so far and does not raise.
C5_ExhaustionAsymmetry ==
    [][(Len(calls') = Len(calls) + 1 /\ calls'[Len(calls')].op = "sample_batch") =>
        LET c == calls'[Len(calls')]
            first == Exhausted(hyperopt_strategy)
            later == /\ ~first
                     /\ \E j \in 1..(c.k - 1) :
                           Exhausted(AfterSamples(hyperopt_strategy, j))
        IN  /\ first => (c.raised = "IndexError" /\ handed_out' = handed_out)
            /\ later => /\ c.raised = None
                        /\ c.n \in 1..(c.k - 1)
                        /\ Len(handed_out') = Len(handed_out) + c.n
                        /\ Exhausted(hyperopt_strategy')]_vars

\* A partial batch was returned, and the next sample_batch raised.
C5_Witness ==
    /\ Len(calls) >= 2
    /\ LastCall.op = "sample_batch"
    /\ LastCall.raised = "IndexError"
    /\ calls[Len(calls) - 1].op = "sample_batch"
    /\ calls[Len(calls) - 1].raised = None
    /\ calls[Len(calls) - 1].n \in 1..(calls[Len(calls) - 1].k - 1)

\* C6: once finished() is true, sample() raises IndexError and returns no
\* sample, for either strategy.
C6_SampleAfterFinishedRaises ==
    \A i \in DOMAIN calls :
        (calls[i].op = "sample" /\ calls[i].fin) =>
            (calls[i].raised = "IndexError" /\ calls[i].n = 0)

\* C7: finished() is monotone: no call takes a finished strategy to an
\* unfinished one.
C7_FinishedMonotone ==
    [][finished(hyperopt_strategy) => finished(hyperopt_strategy')]_vars

\* A finished strategy was called again (sampled and updated).
C7_Witness ==
    /\ Len(calls) >= 2
    /\ finished(hyperopt_strategy)
    /\ LastCall.fin
    /\ LastCall.op \in {"update", "update_batch"}
    /\ calls[Len(calls) - 1].fin
    /\ calls[Len(calls) - 1].op \in {"sample", "sample_batch"}

\* The step is a call of update or update_batch.
UpdateCalled ==
    /\ Len(calls') = Len(calls) + 1
    /\ calls'[Len(calls')].op \in {"update", "update_batch"}

\* C17: on a RandomStrategy no call changes the list of pre-drawn samples,
\* and a call of update or update_batch, with any pairs and at any point,
\* leaves finished() and the answer of every later sample() as they were.
C17_UpdateLeavesRandomAlone ==
    [][IsRandom =>
        /\ hyperopt_strategy'.samples = hyperopt_strategy.samples
        /\ UpdateCalled =>
              /\ finished(hyperopt_strategy') = finished(hyperopt_strategy)
              /\ hyperopt_strategy'.sampled_so_far = hyperopt_strategy.sampled_so_far
              /\ handed_out' = handed_out
              /\ \A g \in SampleSpace(hyperopt_strategy.parameters) :
                    /\ sample(hyperopt_strategy', g).raised
                          = sample(hyperopt_strategy, g).raised
                    /\ sample(hyperopt_strategy', g).value
                          = sample(hyperopt_strategy, g).value]_vars

\* update_batch was called with a pair, and the sample() that followed
\* returned the first pre-drawn sample.
C17_Witness ==
    /\ IsRandom
    /\ Len(calls) = 2
    /\ calls[1].op = "update_batch"
    /\ calls[1].k = 1
    /\ update_calls # <<>>
    /\ calls[2].op = "sample"
    /\ calls[2].raised = None
    /\ handed_out = <<hyperopt_strategy.samples[1]>>

(***************************************************************************)
(* HyperoptExecutor: what the three executors share                        *)
(***************************************************************************)
\* The executor's output_feature and metric (the defaults COMBINED, LOSS).
output_feature == "combined"

metric == "loss"

\* The evaluation stats of a trial whose metric is score.
EvalStats(score) == [f \in {output_feature} |-> [m \in {metric} |-> score]]

TrainStats(parameters) == <<"training_stats", parameters>>

\* Mutant: the score is looked up in the stats and negated.
get_metric_score_Negated(eval_stats) == 0 - eval_stats[output_feature][metric]

get_metric_score(eval_stats) == eval_stats[output_feature][metric]

TrialResult(parameters, eval_stats) ==
    [parameters |-> parameters,
     metric_score |-> get_metric_score(eval_stats),
     training_stats |-> TrainStats(parameters),
     eval_stats |-> eval_stats]

\* Mutant: x goes before the elements with its own score.
RECURSIVE SortedInsert_BeforeEquals(_, _, _)
SortedInsert_BeforeEquals(x, sorted, reverse) ==
    IF sorted = <<>> THEN <<x>>
    ELSE IF (IF reverse THEN Head(sorted).metric_score <= x.metric_score
                        ELSE Head(sorted).metric_score >= x.metric_score)
         THEN <<x>> \o sorted
         ELSE <<Head(sorted)>> \o SortedInsert_BeforeEquals(x, Tail(sorted), reverse)

\* sorted(..., key=metric_score, reverse=...): stable, and with reverse=True
\* equal keys still keep their original order.  x goes before the first
\* element that must come after it.
RECURSIVE SortedInsert(_, _, _)
SortedInsert(x, sorted, reverse) ==
    IF sorted = <<>> THEN <<x>>
    ELSE IF (IF reverse THEN Head(sorted).metric_score < x.metric_score
                        ELSE Head(sorted).metric_score > x.metric_score)
         THEN <<x>> \o sorted
         ELSE <<Head(sorted)>> \o SortedInsert(x, Tail(sorted), reverse)

RECURSIVE Sorted(_, _, _)
Sorted(results, acc, reverse) ==
    IF results = <<>> THEN acc
    ELSE Sorted(Tail(results), SortedInsert(Head(results), acc, reverse), reverse)

\* Mutant: reverse is taken from the wrong goal.
sort_hyperopt_results_WrongDirection(strategy, results) ==
    Sorted(results, <<>>, strategy.goal = MINIMIZE)

sort_hyperopt_results(strategy, results) ==
    Sorted(results, <<>>, strategy.goal = MAXIMIZE)

(***************************************************************************)
(* Rationals <<p, q>> with q > 0, for gpu_fraction                         *)
(***************************************************************************)
RatLess(x, y) == x[1] * y[2] < y[1] * x[2]

RatSub(x, y) == <<x[1] * y[2] - y[1] * x[2], x[2] * y[2]>>

\* ParallelExecutor.epsilon
epsilon == <<1, 100>>

\* Mutant: the fraction is set to 1 whenever the ratio is below it.
AdjustedGpuFraction_AlwaysOne(total_gpus, workers, fraction_arg) ==
    IF total_gpus < workers
    THEN LET fraction == RatSub(<<total_gpus, workers>>, epsilon) IN
         IF RatLess(fraction, fraction_arg) THEN <<1, 1>> ELSE fraction_arg
    ELSE fraction_arg

\* The value of gpu_fraction after lines 417-439.
AdjustedGpuFraction(total_gpus, workers, fraction_arg) ==
    IF total_gpus < workers
    THEN LET fraction == RatSub(<<total_gpus, workers>>, epsilon) IN
         IF RatLess(fraction, fraction_arg)
         THEN IF RatLess(<<1, 2>>, fraction) THEN <<1, 1>> ELSE fraction
         ELSE fraction_arg
    ELSE fraction_arg

\* int(1 / gpu_fraction), for gpu_fraction # 0: int() truncates toward zero.
ProcessPerGpu(fraction) ==
    IF fraction[1] > 0 THEN fraction[2] \div fraction[1]
    ELSE 0 - (fraction[2] \div (0 - fraction[1]))

\* Mutant: one token for each device, whatever process_per_gpu is.
InitialTokens_OneEach(gpu_ids, process_per_gpu) == gpu_ids

\* The tokens lines 446-448 put on the queue, in order.
RECURSIVE InitialTokens(_, _)
InitialTokens(gpu_ids, process_per_gpu) ==
    IF gpu_ids = <<>> THEN <<>>
    ELSE [i \in 1..process_per_gpu |-> Head(gpu_ids)]
         \o InitialTokens(Tail(gpu_ids), process_per_gpu)

(***************************************************************************)
(* Spec: one execute() call                                                *)
(***************************************************************************)
Executors == {"serial", "parallel", "fiber"}

\* gpus.strip().split(","): the device ids "0", "1", ... as numbers
GpuLists == {[i \in 1..g |-> i - 1] : g \in 1..MaxGpus}

\* gpu_fraction: 1.0 (the default), 0.5, and 2.0, which execute() accepts too
GpuFractions == {<<1, 1>>, <<1, 2>>, <<2, 1>>}

IsPool == executor \in {"parallel", "fiber"}

GpuMode == executor = "parallel" /\ gpus # NoGpus

\* The Trial Runner of the end-to-end scenario: the score is num_fc_layers / 10.
StubRunner ==
    [s \in SampleSpace(ParameterSpace) |-> s[<<"combiner", "num_fc_layers">>]]

\* A runner nothing is known about, or the stub.
TrialRunners == {<<>>, StubRunner}

Feature(items) == Dict(items)

\* A model definition with every section.
BaseModelDefinition ==
    Dict([section \in {"input_features", "output_features", "combiner", "training",
                       "preprocessing"} |->
            CASE section = "input_features" -> Dict(("in1" :> Feature(("level" :> Scalar(0)))))
              [] section = "output_features" -> Dict(("out1" :> Feature(("top_k" :> Scalar(0)))))
              [] section = "combiner" -> Dict(("num_fc_layers" :> Scalar(0)) @@ ("fc_size" :> Scalar(0)))
              [] section = "training" -> Dict(("epochs" :> Scalar(0)))
              [] section = "preprocessing" -> EmptyDict])

\* d without key
DelItem(d, key) == Dict([k \in DOMAIN d.items \ {key} |-> d.items[k]])

\* The definitions execute() is called with: with and without a
\* preprocessing section.
ModelDefinitions == {BaseModelDefinition, DelItem(BaseModelDefinition, "preprocessing")}

InitExecute ==
    /\ executor \in Executors
    /\ pc = "start"
    /\ gpus \in IF executor = "parallel" THEN {NoGpus} \cup GpuLists ELSE {NoGpus}
    /\ IF GpuMode
       THEN ConstructStrategy(SmallParameterSpace, MaxGpuSamples)
       ELSE ConstructStrategy(ParameterSpace, MaxSamples)
    /\ num_workers \in IF executor = "serial" THEN {1} ELSE 1..MaxWorkers
    /\ gpu_fraction \in IF GpuMode THEN GpuFractions ELSE {<<1, 1>>}
    /\ sampled_parameters = <<>>
    /\ metric_scores = <<>>
    /\ hyperopt_parameters = <<>>
    /\ tasks = <<>>
    /\ hyperopt_results = <<>>
    /\ returned = <<>>
    /\ queue = <<>>
    /\ queue_at_batch = <<>>
    /\ trial_runner \in TrialRunners
    /\ model_definition \in ModelDefinitions
    /\ completed = <<>>
    /\ dispatched = <<>>
    /\ UtilIdle

\* Lines 399-451 (ParallelExecutor), 248 and 626 (the others): everything
\* before the while loop.
Execute_Setup ==
    /\ pc = "start"
    /\ IF GpuMode
       THEN LET fraction == AdjustedGpuFraction(Len(gpus), num_workers, gpu_fraction) IN
            /\ gpu_fraction' = fraction
            /\ IF fraction[1] = 0
               THEN pc' = "raised" /\ queue' = queue
               ELSE /\ pc' = "loop"
                    /\ queue' = InitialTokens(gpus, ProcessPerGpu(fraction))
       ELSE /\ pc' = "loop"
            /\ UNCHANGED <<gpu_fraction, queue>>
    /\ hyperopt_parameters' = <<>>
    /\ hyperopt_results' = <<>>
    /\ UNCHANGED <<model_definition, completed, dispatched, executor, sampled_parameters, metric_scores, tasks, returned,
                   gpus, num_workers, queue_at_batch, trial_runner>>
    /\ UNCHANGED stratVars
    /\ UNCHANGED utilVars

\* while not self.hyperopt_strategy.finished():
Execute_WhileTest ==
    /\ pc = "loop"
    /\ pc' = IF finished(hyperopt_strategy) THEN "sort" ELSE "sample"
    /\ UNCHANGED <<model_definition, completed, dispatched, executor, sampled_parameters, metric_scores, hyperopt_parameters,
                   tasks, hyperopt_results, returned, gpus, num_workers,
                   gpu_fraction, queue, queue_at_batch, trial_runner>>
    /\ UNCHANGED stratVars
    /\ UNCHANGED utilVars

\* substitute_parameters(copy.deepcopy(model_definition), parameters): the
\* copy is equal in value to the caller's definition.
ModifiedModelDefinition(parameters) ==
    substitute_parameters(model_definition, Items(parameters))

\* Mutant: no deep copy, the substitution writes into the caller's object.
DefinitionAfterSubstitution_NoDeepCopy(definition, parameters) ==
    substitute_parameters(definition, Items(parameters)).value

\* The caller's object after substitute_parameters has worked on the copy.
DefinitionAfterSubstitution(definition, parameters) == definition

RECURSIVE DefinitionAfterBatch(_, _)
DefinitionAfterBatch(definition, batch) ==
    IF batch = <<>> THEN definition
    ELSE DefinitionAfterBatch(DefinitionAfterSubstitution(definition, Head(batch)),
                              Tail(batch))

\* What a trial is called with: the sample and the definition built for it.
HyperoptDict(parameters) ==
    [parameters |-> parameters,
     model_definition |-> ModifiedModelDefinition(parameters).value]

HyperoptDicts(batch) == [i \in DOMAIN batch |-> HyperoptDict(batch[i])]

\* One trial waiting to be run; gpus is the option it carries and token
\* the gpu_id its worker got from the queue, if any.
NewTask(hyperopt_dict) ==
    [parameters |-> hyperopt_dict.parameters,
     model_definition |-> hyperopt_dict.model_definition,
     state |-> "pending", gpus |-> gpus, token |-> <<>>, eval_stats |-> NoStats]

NewTasks(params) == [i \in DOMAIN params |-> NewTask(params[i])]

\* Mutant: no deep copy, so every entry holds the one definition object, as
\* the last substitution left it.
ParallelBatch_SharedDefinition(batch) ==
    [i \in DOMAIN hyperopt_parameters |->
        [hyperopt_parameters[i] EXCEPT
            !.model_definition = HyperoptDict(batch[Len(batch)]).model_definition]]
    \o HyperoptDicts(batch)

\* hyperopt_parameters is created once, before the loop (line 399), and
\* each iteration appends its batch to it (line 458).
ParallelBatch(batch) == hyperopt_parameters \o HyperoptDicts(batch)

\* The trials the iteration is going to run: the batch (lines 253, 634), or
\* all of hyperopt_parameters (lines 499, 501).
TrialParameters(batch) ==
    IF executor = "parallel" THEN ParallelBatch(batch) ELSE HyperoptDicts(batch)

\* substitute_parameters raises for a sample of the batch.
SubstitutionRaises(batch) ==
    \E i \in DOMAIN batch : ModifiedModelDefinition(batch[i]).raised # None

\* def sample_batch(self, batch_size=1): the executors pass no argument.
default_batch_size == 1

\* Mutant: the executor asks for batches of two samples.
SampleBatchStep_BatchOfTwo(next_pc) ==
    \E suggestions \in [1..2 -> SampleSpace(hyperopt_strategy.parameters)] :
        LET r == sample_batch(hyperopt_strategy, 2, suggestions) IN
        /\ hyperopt_strategy' = r.strategy
        /\ handed_out' = handed_out \o r.value
        /\ IF r.raised # None
           THEN /\ pc' = "raised"
                /\ UNCHANGED <<sampled_parameters, metric_scores, hyperopt_parameters,
                               tasks, queue_at_batch, model_definition>>
           ELSE /\ sampled_parameters' = r.value
                /\ metric_scores' = <<>>
                /\ model_definition' = DefinitionAfterBatch(model_definition, r.value)
                /\ IF SubstitutionRaises(r.value)
                   THEN /\ pc' = "raised"
                        /\ UNCHANGED <<hyperopt_parameters, tasks, queue_at_batch>>
                   ELSE /\ pc' = next_pc
                        /\ hyperopt_parameters' = IF executor = "parallel"
                                                  THEN ParallelBatch(r.value)
                                                  ELSE hyperopt_parameters
                        /\ tasks' = NewTasks(TrialParameters(r.value))
                        /\ queue_at_batch' = queue
        /\ completed' = <<>>
        /\ UNCHANGED <<dispatched, executor, hyperopt_results, returned, gpus, num_workers,
                       gpu_fraction, queue, trial_runner, calls, update_calls>>
        /\ UNCHANGED utilVars

\* sampled_parameters = self.hyperopt_strategy.sample_batch(), and what the
\* executor does with the batch up to the point where the trials start.
SampleBatchStep(next_pc) ==
    \E suggestions \in [1..default_batch_size -> SampleSpace(hyperopt_strategy.parameters)] :
        LET r == sample_batch(hyperopt_strategy, default_batch_size, suggestions) IN
        /\ hyperopt_strategy' = r.strategy
        /\ handed_out' = handed_out \o r.value
        /\ IF r.raised # None
           THEN /\ pc' = "raised"
                /\ UNCHANGED <<sampled_parameters, metric_scores, hyperopt_parameters,
                               tasks, queue_at_batch, model_definition>>
           ELSE /\ sampled_parameters' = r.value
                /\ metric_scores' = <<>>
                /\ model_definition' = DefinitionAfterBatch(model_definition, r.value)
                /\ IF SubstitutionRaises(r.value)
                   THEN /\ pc' = "raised"
                        /\ UNCHANGED <<hyperopt_parameters, tasks, queue_at_batch>>
                   ELSE /\ pc' = next_pc
                        /\ hyperopt_parameters' = IF executor = "parallel"
                                                  THEN ParallelBatch(r.value)
                                                  ELSE hyperopt_parameters
                        /\ tasks' = NewTasks(TrialParameters(r.value))
                        /\ queue_at_batch' = queue
        /\ completed' = <<>>
        /\ UNCHANGED <<dispatched, executor, hyperopt_results, returned, gpus, num_workers,
                       gpu_fraction, queue, trial_runner, calls, update_calls>>
        /\ UNCHANGED utilVars

\* SerialExecutor.execute, line 250
Serial_SampleBatch ==
    /\ executor = "serial"
    /\ pc = "sample"
    /\ SampleBatchStep("trials")

\* ParallelExecutor.execute, lines 453-496
Parallel_SampleBatch ==
    /\ executor = "parallel"
    /\ pc = "sample"
    /\ SampleBatchStep("map")

\* FiberExecutor.execute, lines 628-636
Fiber_SampleBatch ==
    /\ executor = "fiber"
    /\ pc = "sample"
    /\ SampleBatchStep("map")

(***************************************************************************)
(* The Trial Runner, train_and_eval_on_split: a function of the trial's    *)
(* definition.  trial_runner records what it did for each sample it has    *)
(* been run on: a metric score, or Raises.                                 *)
(***************************************************************************)
RunnerOutcomes == MetricScores \cup {Raises}

\* What the runner may do for parameters: what it did before, or anything.
RunnerMayAnswer(parameters) ==
    IF parameters \in DOMAIN trial_runner THEN {trial_runner[parameters]}
    ELSE RunnerOutcomes

\* The scores the runner may return for parameters.
RunnerMayReturn(parameters) == RunnerMayAnswer(parameters) \ {Raises}

\* The runner answers outcome for parameters.
RunnerAnswers(parameters, outcome) ==
    /\ outcome \in RunnerMayAnswer(parameters)
    /\ trial_runner' = (parameters :> outcome) @@ trial_runner

TaskIn(states) == {t \in DOMAIN tasks : tasks[t].state \in states}

AllDone == \A t \in DOMAIN tasks : tasks[t].state = "done"

\* Mutant: the stats come back in completion order (as from imap_unordered)
\* and are matched with the parameters by position.
Results_CompletionOrder ==
    [t \in DOMAIN tasks |-> TrialResult(tasks[t].parameters, tasks[completed[t]].eval_stats)]

\* What pool.map returns: the result of each trial at the position of its
\* input, whatever the order of completion.
Results == [t \in DOMAIN tasks |-> TrialResult(tasks[t].parameters, tasks[t].eval_stats)]

Scores(results) == [i \in DOMAIN results |-> results[i].metric_score]

Zip(a, b) ==
    [i \in 1..(IF Len(a) < Len(b) THEN Len(a) ELSE Len(b)) |-> <<a[i], b[i]>>]

(***************************************************************************)
(* SerialExecutor.execute: the for loop, one trial at a time               *)
(***************************************************************************)
\* The arguments of a call of the runner.
Dispatch(task) ==
    [parameters |-> task.parameters, model_definition |-> task.model_definition]

\* Line 253-256: the next parameters of the batch, and the call of the runner.
Serial_TrialStart ==
    /\ executor = "serial"
    /\ pc = "trials"
    /\ TaskIn({"running"}) = {}
    /\ TaskIn({"pending"}) # {}
    /\ LET t == CHOOSE i \in TaskIn({"pending"}) : \A j \in TaskIn({"pending"}) : i <= j IN
       /\ tasks' = [tasks EXCEPT ![t].state = "running"]
       /\ dispatched' = Append(dispatched, Dispatch(tasks[t]))
    /\ UNCHANGED <<model_definition, completed, executor, pc, sampled_parameters, metric_scores, hyperopt_parameters,
                   hyperopt_results, returned, gpus, num_workers, gpu_fraction,
                   queue, queue_at_batch, trial_runner>>
    /\ UNCHANGED stratVars
    /\ UNCHANGED utilVars

\* Lines 256-302: the runner returns; the score and the TrialResult are appended.
Serial_TrialReturn ==
    /\ executor = "serial"
    /\ pc = "trials"
    /\ \E t \in TaskIn({"running"}) :
       \E score \in RunnerMayReturn(tasks[t].parameters) :
          /\ RunnerAnswers(tasks[t].parameters, score)
          /\ tasks' = [tasks EXCEPT ![t].state = "done", ![t].eval_stats = EvalStats(score)]
          /\ metric_scores' = Append(metric_scores, get_metric_score(EvalStats(score)))
          /\ hyperopt_results' = Append(hyperopt_results,
                                        TrialResult(tasks[t].parameters, EvalStats(score)))
    /\ UNCHANGED <<model_definition, completed, dispatched, executor, pc, sampled_parameters, hyperopt_parameters, returned,
                   gpus, num_workers, gpu_fraction, queue, queue_at_batch>>
    /\ UNCHANGED stratVars
    /\ UNCHANGED utilVars

\* Mutant: the exception of the runner is caught and the for loop goes on.
Serial_TrialRaise_Caught ==
    /\ executor = "serial"
    /\ pc = "trials"
    /\ \E t \in TaskIn({"running"}) :
          /\ RunnerAnswers(tasks[t].parameters, Raises)
          /\ tasks' = [tasks EXCEPT ![t].state = "failed"]
    /\ pc' = pc
    /\ UNCHANGED <<model_definition, completed, dispatched, executor, sampled_parameters, metric_scores, hyperopt_parameters,
                   hyperopt_results, returned, gpus, num_workers, gpu_fraction,
                   queue, queue_at_batch>>
    /\ UNCHANGED stratVars
    /\ UNCHANGED utilVars

\* The runner raises: nothing catches it, execute() ends with the exception.
Serial_TrialRaise ==
    /\ executor = "serial"
    /\ pc = "trials"
    /\ \E t \in TaskIn({"running"}) :
          /\ RunnerAnswers(tasks[t].parameters, Raises)
          /\ tasks' = [tasks EXCEPT ![t].state = "failed"]
    /\ pc' = "raised"
    /\ UNCHANGED <<model_definition, completed, dispatched, executor, sampled_parameters, metric_scores, hyperopt_parameters,
                   hyperopt_results, returned, gpus, num_workers, gpu_fraction,
                   queue, queue_at_batch>>
    /\ UNCHANGED stratVars
    /\ UNCHANGED utilVars

\* Mutant: the loop goes on without giving the outcomes to the strategy.
UpdateBatchStep_NoUpdate(pairs) ==
    /\ pc' = "loop"
    /\ UNCHANGED <<hyperopt_strategy, update_calls, calls, handed_out>>
    /\ UNCHANGED utilVars

\* The strategy is updated with pairs, and the loop goes back to its test.
UpdateBatchStep(pairs) ==
    /\ hyperopt_strategy' = update_batch(hyperopt_strategy, pairs)
    /\ update_calls' = update_calls \o pairs
    /\ pc' = "loop"
    /\ UNCHANGED <<calls, handed_out>>
    /\ UNCHANGED utilVars

\* Mutant: the loop goes on without waiting for the running trial.
Serial_UpdateBatch_Early ==
    /\ executor = "serial"
    /\ pc = "trials"
    /\ UpdateBatchStep(Zip(sampled_parameters, metric_scores))
    /\ UNCHANGED <<model_definition, completed, dispatched, executor, sampled_parameters, metric_scores, hyperopt_parameters,
                   tasks, hyperopt_results, returned, gpus, num_workers,
                   gpu_fraction, queue, queue_at_batch, trial_runner>>

\* Line 304: after the for loop
Serial_UpdateBatch ==
    /\ executor = "serial"
    /\ pc = "trials"
    /\ AllDone
    /\ UpdateBatchStep(Zip(sampled_parameters, metric_scores))
    /\ UNCHANGED <<model_definition, completed, dispatched, executor, sampled_parameters, metric_scores, hyperopt_parameters,
                   tasks, hyperopt_results, returned, gpus, num_workers,
                   gpu_fraction, queue, queue_at_batch, trial_runner>>

(***************************************************************************)
(* pool.map (multiprocessing.Pool / fiber.Pool): num_workers processes     *)
(* take the trials in submission order and run them concurrently.  The     *)
(* workers are followed until pool.map returns or raises in execute().     *)
(***************************************************************************)
WorkerVarsUnchanged ==
    /\ UNCHANGED <<model_definition, executor, pc, sampled_parameters, metric_scores, hyperopt_parameters,
                   hyperopt_results, returned, gpus, num_workers, gpu_fraction,
                   queue_at_batch>>
    /\ UNCHANGED stratVars
    /\ UNCHANGED utilVars

\* A free worker takes the next trial.  In GPU mode the trial function
\* starts with self.queue.get() (line 347), which blocks on an empty queue.
Pool_Dispatch(t) ==
    /\ IsPool
    /\ pc = "map"
    /\ t \in TaskIn({"pending"})
    /\ \A j \in TaskIn({"pending"}) : t <= j
    /\ Cardinality(TaskIn({"waiting", "running"})) < num_workers
    /\ tasks' = [tasks EXCEPT ![t].state = IF GpuMode THEN "waiting" ELSE "running"]
    /\ UNCHANGED <<queue, trial_runner>>
    /\ UNCHANGED completed
    /\ dispatched' = Append(dispatched, Dispatch(tasks[t]))
    /\ WorkerVarsUnchanged

\* _train_and_eval_model (lines 334-344) and the fiber train_func: return
Worker_Return(t) ==
    /\ IsPool /\ ~GpuMode
    /\ pc = "map"
    /\ t \in TaskIn({"running"})
    /\ \E score \in RunnerMayReturn(tasks[t].parameters) :
          /\ RunnerAnswers(tasks[t].parameters, score)
          /\ tasks' = [tasks EXCEPT ![t].state = "done", ![t].eval_stats = EvalStats(score)]
    /\ UNCHANGED queue
    /\ completed' = Append(completed, t)
    /\ UNCHANGED dispatched
    /\ WorkerVarsUnchanged

\* _train_and_eval_model and the fiber train_func: the runner raises
Worker_Raise(t) ==
    /\ IsPool /\ ~GpuMode
    /\ pc = "map"
    /\ t \in TaskIn({"running"})
    /\ RunnerAnswers(tasks[t].parameters, Raises)
    /\ tasks' = [tasks EXCEPT ![t].state = "failed"]
    /\ UNCHANGED queue
    /\ completed' = Append(completed, t)
    /\ UNCHANGED dispatched
    /\ WorkerVarsUnchanged

\* Mutant: line 350 is missing, the trial keeps the caller's gpus option.
TrainAndEvalModelGpu_Get_KeepsGpus(t) ==
    /\ GpuMode
    /\ pc = "map"
    /\ t \in TaskIn({"waiting"})
    /\ queue # <<>>
    /\ queue' = Tail(queue)
    /\ tasks' = [tasks EXCEPT ![t].state = "running", ![t].token = <<Head(queue)>>]
    /\ UNCHANGED trial_runner
    /\ UNCHANGED completed
    /\ UNCHANGED dispatched
    /\ WorkerVarsUnchanged

\* _train_and_eval_model_gpu, lines 347-350: gpu_id = self.queue.get(), and
\* hyperopt_dict["gpus"] = gpu_id
TrainAndEvalModelGpu_Get(t) ==
    /\ GpuMode
    /\ pc = "map"
    /\ t \in TaskIn({"waiting"})
    /\ queue # <<>>
    /\ queue' = Tail(queue)
    /\ tasks' = [tasks EXCEPT ![t].state = "running", ![t].token = <<Head(queue)>>,
                              ![t].gpus = <<Head(queue)>>]
    /\ UNCHANGED trial_runner
    /\ UNCHANGED completed
    /\ UNCHANGED dispatched
    /\ WorkerVarsUnchanged

\* Mutant: the token is not put back when the trial succeeds.
TrainAndEvalModelGpu_Return_NoPut(t) ==
    /\ GpuMode
    /\ pc = "map"
    /\ t \in TaskIn({"running"})
    /\ \E score \in RunnerMayReturn(tasks[t].parameters) :
          /\ RunnerAnswers(tasks[t].parameters, score)
          /\ tasks' = [tasks EXCEPT ![t].state = "done", ![t].eval_stats = EvalStats(score)]
    /\ queue' = queue
    /\ completed' = Append(completed, t)
    /\ UNCHANGED dispatched
    /\ WorkerVarsUnchanged

\* _train_and_eval_model_gpu, lines 351-360: the runner returns, the finally
\* clause puts the token back, the result is returned.
TrainAndEvalModelGpu_Return(t) ==
    /\ GpuMode
    /\ pc = "map"
    /\ t \in TaskIn({"running"})
    /\ \E score \in RunnerMayReturn(tasks[t].parameters) :
          /\ RunnerAnswers(tasks[t].parameters, score)
          /\ tasks' = [tasks EXCEPT ![t].state = "done", ![t].eval_stats = EvalStats(score)]
    /\ queue' = Append(queue, tasks[t].token[1])
    /\ completed' = Append(completed, t)
    /\ UNCHANGED dispatched
    /\ WorkerVarsUnchanged

\* Mutant: no finally clause, the token is lost when the runner raises.
TrainAndEvalModelGpu_Raise_NoFinally(t) ==
    /\ GpuMode
    /\ pc = "map"
    /\ t \in TaskIn({"running"})
    /\ RunnerAnswers(tasks[t].parameters, Raises)
    /\ tasks' = [tasks EXCEPT ![t].state = "failed"]
    /\ queue' = queue
    /\ completed' = Append(completed, t)
    /\ UNCHANGED dispatched
    /\ WorkerVarsUnchanged

\* _train_and_eval_model_gpu, lines 351-354: the runner raises, the finally
\* clause puts the token back, the exception leaves the function.
TrainAndEvalModelGpu_Raise(t) ==
    /\ GpuMode
    /\ pc = "map"
    /\ t \in TaskIn({"running"})
    /\ RunnerAnswers(tasks[t].parameters, Raises)
    /\ tasks' = [tasks EXCEPT ![t].state = "failed"]
    /\ queue' = Append(queue, tasks[t].token[1])
    /\ completed' = Append(completed, t)
    /\ UNCHANGED dispatched
    /\ WorkerVarsUnchanged

\* pool.map re-raises in the controlling process the exception of a trial;
\* execute() does not catch it.
Pool_MapRaise ==
    /\ IsPool
    /\ pc = "map"
    /\ TaskIn({"failed"}) # {}
    /\ pc' = "raised"
    /\ UNCHANGED <<model_definition, completed, dispatched, executor, sampled_parameters, metric_scores, hyperopt_parameters,
                   tasks, hyperopt_results, returned, gpus, num_workers,
                   gpu_fraction, queue, queue_at_batch, trial_runner>>
    /\ UNCHANGED stratVars
    /\ UNCHANGED utilVars

\* ParallelExecutor.execute, lines 498-507: pool.map has returned
\* batch_results, one result per submitted trial, in submission order.
Parallel_UpdateBatch ==
    /\ executor = "parallel"
    /\ pc = "map"
    /\ AllDone
    /\ LET batch_results == Results IN
       /\ UpdateBatchStep([i \in DOMAIN batch_results |->
                             <<batch_results[i].parameters, batch_results[i].metric_score>>])
       /\ hyperopt_results' = hyperopt_results \o batch_results
    /\ UNCHANGED <<model_definition, completed, dispatched, executor, sampled_parameters, metric_scores, hyperopt_parameters,
                   tasks, returned, gpus, num_workers, gpu_fraction, queue,
                   queue_at_batch, trial_runner>>

\* Mutant: the new TrialResults are put in front of the accumulated list.
Fiber_UpdateBatch_Prepends ==
    /\ executor = "fiber"
    /\ pc = "map"
    /\ AllDone
    /\ LET stats_batch == Zip(Results, sampled_parameters)
           new_results == [i \in DOMAIN stats_batch |->
                             TrialResult(stats_batch[i][2], stats_batch[i][1].eval_stats)]
       IN
       /\ metric_scores' = metric_scores \o Scores(new_results)
       /\ hyperopt_results' = new_results \o hyperopt_results
       /\ UpdateBatchStep(Zip(sampled_parameters, metric_scores'))
    /\ UNCHANGED <<model_definition, completed, dispatched, executor, sampled_parameters, hyperopt_parameters,
                   tasks, returned, gpus, num_workers, gpu_fraction, queue,
                   queue_at_batch, trial_runner>>

\* FiberExecutor.execute, lines 631-653: pool.map has returned stats_batch.
Fiber_UpdateBatch ==
    /\ executor = "fiber"
    /\ pc = "map"
    /\ AllDone
    /\ LET stats_batch == Zip(Results, sampled_parameters)
           new_results == [i \in DOMAIN stats_batch |->
                             TrialResult(stats_batch[i][2], stats_batch[i][1].eval_stats)]
       IN
       /\ metric_scores' = metric_scores \o Scores(new_results)
       /\ hyperopt_results' = hyperopt_results \o new_results
       /\ UpdateBatchStep(Zip(sampled_parameters, metric_scores'))
    /\ UNCHANGED <<model_definition, completed, dispatched, executor, sampled_parameters, hyperopt_parameters,
                   tasks, returned, gpus, num_workers, gpu_fraction, queue,
                   queue_at_batch, trial_runner>>

\* Mutant: the accumulated list is returned as it is, without the sort.
Execute_SortAndReturn_Unsorted ==
    /\ pc = "sort"
    /\ hyperopt_results' = hyperopt_results
    /\ returned' = hyperopt_results'
    /\ pc' = "returned"
    /\ UNCHANGED <<model_definition, completed, dispatched, executor, sampled_parameters, metric_scores, hyperopt_parameters,
                   tasks, gpus, num_workers, gpu_fraction, queue, queue_at_batch,
                   trial_runner>>
    /\ UNCHANGED stratVars
    /\ UNCHANGED utilVars

\* Lines 306-308, 509-510, 655-657: sort and return.
Execute_SortAndReturn ==
    /\ pc = "sort"
    /\ hyperopt_results' = sort_hyperopt_results(hyperopt_strategy, hyperopt_results)
    /\ returned' = hyperopt_results'
    /\ pc' = "returned"
    /\ UNCHANGED <<model_definition, completed, dispatched, executor, sampled_parameters, metric_scores, hyperopt_parameters,
                   tasks, gpus, num_workers, gpu_fraction, queue, queue_at_batch,
                   trial_runner>>
    /\ UNCHANGED stratVars
    /\ UNCHANGED utilVars

Next ==
    \/ Execute_Setup
    \/ Execute_WhileTest
    \/ Serial_SampleBatch
    \/ Parallel_SampleBatch
    \/ Fiber_SampleBatch
    \/ Serial_TrialStart
    \/ Serial_TrialReturn
    \/ Serial_TrialRaise
    \/ Serial_UpdateBatch
    \/ \E t \in DOMAIN tasks : Pool_Dispatch(t)
    \/ \E t \in DOMAIN tasks : Worker_Return(t)
    \/ \E t \in DOMAIN tasks : Worker_Raise(t)
    \/ \E t \in DOMAIN tasks : TrainAndEvalModelGpu_Get(t)
    \/ \E t \in DOMAIN tasks : TrainAndEvalModelGpu_Return(t)
    \/ \E t \in DOMAIN tasks : TrainAndEvalModelGpu_Raise(t)
    \/ Pool_MapRaise
    \/ Parallel_UpdateBatch
    \/ Fiber_UpdateBatch
    \/ Execute_SortAndReturn

Spec == InitExecute /\ [][Next]_vars

(***************************************************************************)
(* Properties of execute() (checked under Spec)                            *)
(***************************************************************************)
Parameters(results) == [i \in DOMAIN results |-> results[i].parameters]

Firsts(pairs) == [i \in DOMAIN pairs |-> pairs[i][1]]

InFlight == TaskIn({"waiting", "running"})

\* C1: execute() returns one TrialResult per sample the strategy handed out,
\* N of them, and none for any other sample.
C1_OneResultPerSample ==
    pc = "returned" =>
        /\ Len(returned) = hyperopt_strategy.num_samples
        /\ SeqToBag(Parameters(returned)) = SeqToBag(handed_out)

\* The controlling process is between two batches: at the loop test, about
\* to sample, or past the loop.
BetweenBatches == pc \in {"loop", "sample", "sort", "returned"}

\* Whenever finished() is evaluated or a batch is sampled, no trial is
\* pending or running and every sample handed out so far has been given to
\* update.
AllOutcomesFedBack ==
    BetweenBatches =>
        /\ \A t \in DOMAIN tasks : tasks[t].state = "done"
        /\ SeqToBag(handed_out) \sqsubseteq SeqToBag(Firsts(update_calls))

\* C2: the cadence sample, run, update, test.  A batch is sampled only at
\* a state that AllOutcomesFedBack describes; update_batch is called only
\* when every trial of the iteration has completed, with a pair for every
\* sample of the batch carrying the score of that sample's trial, and it is
\* followed by the loop test.
C2_Cadence ==
    [][/\ handed_out' # handed_out => (pc = "sample" /\ AllOutcomesFedBack)
       /\ update_calls' # update_calls =>
            /\ \A t \in DOMAIN tasks : tasks[t].state = "done"
            /\ pc' = "loop"
            /\ LET new == SubSeq(update_calls', Len(update_calls) + 1, Len(update_calls'))
               IN  /\ SeqToBag(sampled_parameters) \sqsubseteq SeqToBag(Firsts(new))
                   /\ \A i \in DOMAIN new : new[i][2] = trial_runner[new[i][1]]
                   /\ SeqToBag(handed_out) \sqsubseteq SeqToBag(Firsts(update_calls'))]_vars

\* A second batch is running after the first one was used to update.
C2_Witness ==
    /\ Len(handed_out) = 2
    /\ update_calls # <<>>
    /\ InFlight # {}

\* Non-increasing (reverse) or non-decreasing metric scores.
Ordered(results, reverse) ==
    \A i, j \in DOMAIN results :
        i < j => IF reverse THEN results[i].metric_score >= results[j].metric_score
                            ELSE results[i].metric_score <= results[j].metric_score

\* C8: the returned list is a permutation of the accumulated TrialResults,
\* non-increasing in metric_score for MAXIMIZE and non-decreasing for
\* MINIMIZE; scores 5, 9, 7 come back as 9, 7, 5 or as 5, 7, 9.
C8_Ranked ==
    [][(pc = "sort" /\ pc' = "returned") =>
        /\ SeqToBag(returned') = SeqToBag(hyperopt_results)
        /\ Len(returned') = Len(hyperopt_results)
        /\ Ordered(returned', hyperopt_strategy.goal = MAXIMIZE)
        /\ Scores(hyperopt_results) = <<5, 9, 7>> =>
              Scores(returned') = IF hyperopt_strategy.goal = MAXIMIZE
                                  THEN <<9, 7, 5>> ELSE <<5, 7, 9>>]_vars

\* The trials scored 5, 9, 7 in that order and were returned as 9, 7, 5.
C8_Witness ==
    /\ pc = "returned"
    /\ executor = "serial"
    /\ hyperopt_strategy.goal = MAXIMIZE
    /\ [i \in DOMAIN update_calls |-> update_calls[i][2]] = <<5, 9, 7>>
    /\ Scores(returned) = <<9, 7, 5>>

HeldTokens == [i \in 1..Cardinality(TaskIn({"running"})) |->
                 tasks[CHOOSE t \in TaskIn({"running"}) :
                         Cardinality({u \in TaskIn({"running"}) : u < t}) = i - 1].token[1]]

\* C9: in GPU mode, when the trials of a batch have completed the queue
\* holds the multiset of tokens it held when the batch was sampled, and no
\* trial holds a token.
C9_TokensBackAfterBatch ==
    (GpuMode /\ BetweenBatches /\ tasks # <<>>) =>
        /\ SeqToBag(queue) = SeqToBag(queue_at_batch)
        /\ TaskIn({"running"}) = {}

\* A batch of several trials has completed and the tokens came back in
\* another order.
C9_Witness ==
    /\ GpuMode
    /\ pc = "loop"
    /\ Len(tasks) >= 2
    /\ queue # queue_at_batch
    /\ SeqToBag(queue) = SeqToBag(queue_at_batch)

\* C10: in GPU mode, the step in which the runner raises inside a trial
\* puts the trial's token back on the queue, and the tokens in circulation
\* (queued plus held) are the same before and after.
C10_TokenBackOnFailure ==
    [][\A t \in DOMAIN tasks :
          (GpuMode /\ tasks[t].state = "running" /\ t \in DOMAIN tasks'
             /\ tasks'[t].state = "failed") =>
              /\ queue' = Append(queue, tasks[t].token[1])
              /\ SeqToBag(queue') (+) SeqToBag(HeldTokens')
                    = SeqToBag(queue) (+) SeqToBag(HeldTokens)]_vars

\* A trial holding a token has failed while another trial still holds one.
C10_Witness ==
    /\ GpuMode
    /\ TaskIn({"failed"}) # {}
    /\ TaskIn({"running"}) # {}
    /\ Len(queue) + Cardinality(TaskIn({"running"}))
          = Len(gpus) * ProcessPerGpu(gpu_fraction)

\* The pairs the step gives to update_batch.
NewPairs == SubSeq(update_calls', Len(update_calls) + 1, Len(update_calls'))

\* C11: in the pool executors, whatever the order in which the trials of a
\* pool.map completed, the i-th pair given to update_batch is the sample of
\* the i-th trial with the score of the stats that trial's runner returned.
C11_PairsByTrial ==
    [][(IsPool /\ update_calls' # update_calls) =>
        /\ Len(NewPairs) = Len(tasks)
        /\ Len(completed) = Len(tasks)
        /\ \A i \in DOMAIN NewPairs :
              /\ NewPairs[i][1] = tasks[i].parameters
              /\ NewPairs[i][2] = get_metric_score(tasks[i].eval_stats)
              /\ NewPairs[i][2] = trial_runner[tasks[i].parameters]]_vars

\* update_batch was called after two trials on different samples, with
\* different scores, completed in the reverse of their submission order.
C11_Witness ==
    /\ IsPool
    /\ pc = "loop"
    /\ Len(tasks) >= 2
    /\ Len(completed) = Len(tasks)
    /\ completed[1] = 2
    /\ completed[2] = 1
    /\ tasks[1].parameters # tasks[2].parameters
    /\ get_metric_score(tasks[1].eval_stats) # get_metric_score(tasks[2].eval_stats)
    /\ Len(update_calls) >= 2
    /\ update_calls[Len(update_calls) - Len(tasks) + 1]
          = <<tasks[1].parameters, get_metric_score(tasks[1].eval_stats)>>

\* C12: no step of execute() changes the caller's model definition: when
\* execute() has returned or raised, the definition is the value passed in.
C12_CallerDefinitionUntouched ==
    [][model_definition' = model_definition]_vars

\* execute() returned after trials on two different samples, each run on a
\* definition that differs from the caller's.
C12_Witness ==
    /\ pc = "returned"
    /\ Len(dispatched) >= 2
    /\ dispatched[1].parameters # dispatched[2].parameters
    /\ \A i \in DOMAIN dispatched : dispatched[i].model_definition # model_definition
    /\ model_definition = BaseModelDefinition

\* The scalar values of a definition, each with the path of keys to it.
RECURSIVE Leaves(_, _)
Leaves(d, path) ==
    IF ~IsDict(d) THEN {<<path, d.v>>}
    ELSE UNION {Leaves(d.items[key], Append(path, key)) : key \in DOMAIN d.items}

\* The values of the definition base in which the sample s, whose names are
\* paths into the sections, is substituted and nothing else is changed.
LeavesWith(base, s) ==
    {l \in Leaves(base, <<>>) : l[1] \notin DOMAIN s}
        \cup {<<name, s[name]>> : name \in DOMAIN s}

\* C13: every definition the Trial Runner was called with is the caller's
\* definition with the values of that trial's sample at the sample's names
\* and the caller's values everywhere else, so it shows no value of the
\* sample of another trial.
C13_OwnSampleOnly ==
    \A i \in DOMAIN dispatched :
        /\ Leaves(dispatched[i].model_definition, <<>>)
              = LeavesWith(model_definition, dispatched[i].parameters)
        /\ DOMAIN dispatched[i].model_definition.items = DOMAIN model_definition.items

\* Two trials on different samples are running at once, and neither sample
\* is the caller's own value.
C13_Witness ==
    /\ Len(tasks) >= 2
    /\ tasks[1].state = "running"
    /\ tasks[2].state = "running"
    /\ tasks[1].parameters # tasks[2].parameters
    /\ Len(dispatched) >= 3
    /\ tasks[1].model_definition # tasks[2].model_definition
    /\ tasks[1].model_definition # model_definition
    /\ tasks[2].model_definition # model_definition

Failed == TaskIn({"failed"}) # {}

\* C14: in SerialExecutor and ParallelExecutor, from the step in which the
\* Trial Runner raises for a trial on, execute() only goes to its end by
\* that exception (at once in SerialExecutor): it returns no list, appends
\* no result, gives no pair to update, keeps the failed trial without stats
\* and samples no further batch.
C14_TrialFailureIsFatal ==
    [][(executor \in {"serial", "parallel"}
          /\ \E t \in DOMAIN tasks' : tasks'[t].state = "failed") =>
        /\ pc' \in {"map", "raised"}
        /\ executor = "serial" => pc' = "raised"
        /\ Failed => pc' \in {pc, "raised"}
        /\ returned' = <<>>
        /\ hyperopt_results' = hyperopt_results
        /\ update_calls' = update_calls
        /\ handed_out' = handed_out
        /\ \A t \in DOMAIN tasks' :
              tasks'[t].state = "failed" => tasks'[t].eval_stats = NoStats]_vars

\* ParallelExecutor has raised in its second iteration: one trial failed,
\* another one of the same pool.map returned, the first batch had been fed
\* back.
C14_Witness ==
    /\ executor = "parallel"
    /\ pc = "raised"
    /\ Failed
    /\ TaskIn({"done"}) # {}
    /\ update_calls # <<>>
    /\ returned = <<>>

\* execute() has ended: it returned, or an exception left it.
Ended == pc \in {"returned", "raised"}

\* The controlling process has a step to take: it is not waiting for
\* pool.map, or pool.map has its results or an exception for it.
ControllerCanStep ==
    \/ pc \in {"start", "loop", "sample", "sort"}
    \/ pc = "trials" /\ tasks # <<>>
    \/ pc = "map" /\ (AllDone \/ Failed)

\* A worker of the pool has a step to take: a trial to start, a token to
\* get for the trial it has started, or a running trial to finish.
WorkerCanStep ==
    /\ pc = "map"
    /\ \/ TaskIn({"pending"}) # {} /\ Cardinality(InFlight) < num_workers
       \/ TaskIn({"waiting"}) # {} /\ queue # <<>>
       \/ TaskIn({"running"}) # {}

\* C18: execute() terminates.  Every iteration spends one sample of the
\* finite budget and every trial the runner is called for returns or raises,
\* so execute() fails to end only if it reaches a state where it has not
\* ended and neither the controlling process nor a worker can take a step.
C18_ExecuteTerminates == ~Ended => (ControllerCanStep \/ WorkerCanStep)

num_fc_layers == <<"combiner", "num_fc_layers">>

\* The end-to-end scenario: SerialExecutor, MAXIMIZE, RandomStrategy with
\* num_samples = 3 on combiner.num_fc_layers in {1, 2, 3}, and the runner
\* whose score is num_fc_layers / 10 (scores are kept in tenths).
Scenario ==
    /\ executor = "serial"
    /\ IsRandom
    /\ hyperopt_strategy.goal = MAXIMIZE
    /\ hyperopt_strategy.parameters = ParameterSpace
    /\ hyperopt_strategy.num_samples = 3
    /\ trial_runner = StubRunner
    /\ Has(model_definition, "preprocessing")

\* As claimed: in the scenario execute() returns 3 results, the first with
\* parameters {combiner.num_fc_layers: 3} and metric_score 0.3.
C16_TopIsThree ==
    (Scenario /\ pc \in {"returned", "raised"}) =>
        /\ pc = "returned"
        /\ Len(returned) = 3
        /\ returned[1].parameters[num_fc_layers] = 3
        /\ returned[1].metric_score = 3

\* The largest element of a non-empty set of numbers.
Max(S) == CHOOSE x \in S : \A y \in S : y <= x

\* C16 (amended): in the scenario execute() returns 3 results, one for each
\* sample drawn, ranked by decreasing score; the first has the largest
\* num_fc_layers among the samples drawn and that value / 10 as its score,
\* which is {combiner.num_fc_layers: 3} and 0.3 when 3 was drawn.
C16_TopIsLargestDrawn ==
    (Scenario /\ pc \in {"returned", "raised"}) =>
        LET drawn == {hyperopt_strategy.samples[i][num_fc_layers] :
                         i \in DOMAIN hyperopt_strategy.samples}
        IN  /\ pc = "returned"
            /\ Len(returned) = 3
            /\ SeqToBag(Parameters(returned)) = SeqToBag(hyperopt_strategy.samples)
            /\ Ordered(returned, TRUE)
            /\ \A i \in DOMAIN returned :
                  returned[i].metric_score = returned[i].parameters[num_fc_layers]
            /\ returned[1].parameters[num_fc_layers] = Max(drawn)
            /\ returned[1].metric_score = Max(drawn)
            /\ 3 \in drawn => /\ returned[1].parameters[num_fc_layers] = 3
                              /\ returned[1].metric_score = 3

\* The scenario has returned; the samples drawn were 1, 3, 2.
C16_Witness ==
    /\ Scenario
    /\ pc = "returned"
    /\ [i \in DOMAIN handed_out |-> handed_out[i][num_fc_layers]] = <<1, 3, 2>>
    /\ Scores(returned) = <<3, 2, 1>>
    /\ returned[1].parameters[num_fc_layers] = 3

\* C21: ParallelExecutor gives pool.map, in each iteration, the trials of
\* the batch sampled in that iteration and no other, and over the whole
\* call no sample is dispatched to the runner more often than the strategy
\* handed it out.
C21_OnlyTheNewBatchIsSubmitted ==
    executor = "parallel" =>
        /\ pc = "map" => Parameters(tasks) = sampled_parameters
        /\ SeqToBag(Parameters(dispatched)) \sqsubseteq SeqToBag(handed_out)

\* C22: update is called once for each sample handed out, never more, with
\* the score the runner returned for that sample, and the strategy sees the
\* updates in the order of the pairs given to update_batch.
C22_OneUpdatePerSample ==
    /\ SeqToBag(Firsts(update_calls)) \sqsubseteq SeqToBag(handed_out)
    /\ pc \in {"loop", "sort", "returned"} =>
          SeqToBag(Firsts(update_calls)) = SeqToBag(handed_out)
    /\ \A i \in DOMAIN update_calls :
          /\ update_calls[i][1] \in DOMAIN trial_runner
          /\ update_calls[i][2] = trial_runner[update_calls[i][1]]
    /\ hyperopt_strategy.type = "pysot" => hyperopt_strategy.observed = update_calls

\* C29: every TrialResult accumulated holds the metric score found in its
\* own eval_stats, under output_feature and metric; those stats are what
\* the runner returned for the TrialResult's sample, and the runner was
\* called with the definition built from that sample.
C29_ResultOfItsOwnTrial ==
    \A i \in DOMAIN hyperopt_results :
        LET result == hyperopt_results[i] IN
        /\ result.metric_score = result.eval_stats[output_feature][metric]
        /\ result.parameters \in DOMAIN trial_runner
        /\ result.eval_stats[output_feature][metric] = trial_runner[result.parameters]
        /\ \E d \in DOMAIN dispatched :
              /\ dispatched[d].parameters = result.parameters
              /\ dispatched[d].model_definition
                    = substitute_parameters(model_definition,
                                            Items(result.parameters)).value

\* Two trials on different samples have given different scores.
C29_Witness ==
    /\ executor \in {"serial", "fiber"}
    /\ Len(hyperopt_results) = 2
    /\ hyperopt_results[1].parameters # hyperopt_results[2].parameters
    /\ hyperopt_results[1].metric_score > hyperopt_results[2].metric_score

IsPrefix(a, b) == Len(a) <= Len(b) /\ SubSeq(b, 1, Len(a)) = a

\* C30: a step of execute() leaves the accumulated list of TrialResults as
\* it is or appends to it, keeping every entry it has at its position; only
\* the sort after the loop reorders it, and it keeps the entries.
C30_ResultsOnlyGrow ==
    [][IF pc = "sort"
       THEN SeqToBag(hyperopt_results') = SeqToBag(hyperopt_results)
       ELSE IsPrefix(hyperopt_results, hyperopt_results')]_vars

\* The list grew to two entries over two iterations and the sort after the
\* loop has put the second one first.
C30_Witness ==
    /\ executor = "fiber"
    /\ pc = "returned"
    /\ Len(hyperopt_results) = 2
    /\ Len(update_calls) = 2
    /\ hyperopt_results[1].parameters = update_calls[2][1]
    /\ hyperopt_results[2].parameters = update_calls[1][1]
    /\ update_calls[1][1] # update_calls[2][1]

\* C36: SerialExecutor runs the trials one at a time in the order the
\* strategy handed the samples out: at most one trial is in flight, the
\* trials started so far are those of a prefix of the samples handed out,
\* in that order, and when a trial is started the trial of every earlier
\* sample has returned and left its TrialResult (at its position, until the
\* sort after the loop).
C36_SerialOneAtATime ==
    executor = "serial" =>
        /\ Cardinality(InFlight) <= 1
        /\ IsPrefix(Parameters(dispatched), handed_out)
        /\ \A i \in DOMAIN dispatched :
              i < Len(dispatched) =>
                  /\ i <= Len(hyperopt_results)
                  /\ pc # "returned" =>
                        hyperopt_results[i].parameters = dispatched[i].parameters

\* The second trial of a SerialExecutor is running and the first one has
\* returned.
C36_Witness ==
    /\ executor = "serial"
    /\ Len(dispatched) = 2
    /\ Cardinality(InFlight) = 1
    /\ Len(hyperopt_results) = 1
    /\ hyperopt_results[1].parameters = handed_out[1]

\* C37: each request to the strategy hands out exactly one sample, and at
\* the request every sample handed out before has been passed to update
\* together with the score of its own trial; so an adaptive strategy has
\* seen the outcome of every earlier sample when it suggests the next one.
C37_OneSampleAtATime ==
    [][handed_out' # handed_out =>
        /\ Len(handed_out') = Len(handed_out) + 1
        /\ sampled_parameters' = <<handed_out'[Len(handed_out')]>>
        /\ SeqToBag(handed_out) \sqsubseteq SeqToBag(Firsts(update_calls))
        /\ \A i \in DOMAIN handed_out :
              <<handed_out[i], trial_runner[handed_out[i]]>>
                  \in {update_calls[k] : k \in DOMAIN update_calls}
        /\ hyperopt_strategy.type = "pysot" =>
              SeqToBag(handed_out) \sqsubseteq SeqToBag(Firsts(hyperopt_strategy.observed))]_vars

\* An adaptive strategy has handed out its second sample, one sample after
\* the other, and has observed the outcome of the first.
C37_Witness ==
    /\ hyperopt_strategy.type = "pysot"
    /\ Len(handed_out) = 2
    /\ Len(sampled_parameters) = 1
    /\ Len(hyperopt_strategy.observed) >= 1
    /\ hyperopt_strategy.observed[1][1] = handed_out[1]

(***************************************************************************)
(* SpecSubstitute: one call                                                *)
(*   modified_model_definition =                                           *)
(*       substitute_parameters(copy.deepcopy(model_definition), parameters)*)
(* as the executors make it, on any definition and any sample.             *)
(***************************************************************************)
\* No strategy exists.
NoStrategy ==
    NewStrategy([type |-> None, goal |-> None, parameters |-> <<>>, num_samples |-> 0,
                 samples |-> <<>>, sampled_so_far |-> 0, observed |-> <<>>])

\* The base definition whose combiner has a nested dict.
NestedModelDefinition ==
    SetItem(BaseModelDefinition, "combiner",
            SetItem(BaseModelDefinition.items["combiner"], "fc",
                    Dict(("size" :> Scalar(0)) @@ ("dropout" :> Scalar(0)))))

\* A definition with a top-level section substitute_parameters never names.
WithOtherSection(d) == SetItem(d, "other", Dict(("x" :> Scalar(0))))

\* Definitions with every section, definitions that lack one, and
\* definitions with one more.
SubstituteDefinitions ==
    {BaseModelDefinition, NestedModelDefinition}
        \cup {DelItem(d, section) :
                d \in {BaseModelDefinition, NestedModelDefinition},
                section \in {"preprocessing", "training"}}
        \cup {WithOtherSection(d) : d \in {BaseModelDefinition, NestedModelDefinition}}

\* Parameter names: of a section, of a feature, of a nested dict, of a
\* prefix of another name, of nothing.
SubstituteNames ==
    {<<"combiner", "num_fc_layers">>, <<"combiner", "fc", "size">>,
     <<"combiner", "fc">>, <<"combiner", "fc", "size", "x">>, <<"training", "epochs">>, <<"preprocessing", "split">>,
     <<"in1", "level">>, <<"other", "x">>}

SubstituteValues == {1, 2}

\* The samples: up to MaxItems items with different names, in any order.
SubstituteSamples ==
    {items \in UNION {[1..n -> SubstituteNames \X {Scalar(v) : v \in SubstituteValues}] :
                        n \in 0..MaxItems} :
        \A i, j \in DOMAIN items : i # j => items[i][1] # items[j][1]}

InitSubstitute ==
    /\ pc = "call"
    /\ model_definition \in SubstituteDefinitions
    /\ substitute_arg \in SubstituteSamples
    /\ parsed_parameters = EmptyDict
    /\ modified_model_definition = EmptyDict
    /\ raised = None
    /\ hyperopt_params = <<>>
    /\ resolved = <<>>
    /\ np_random = 0
    /\ instances = <<>>
    /\ NoStrategy
    /\ NoExecutor

\* Lines 254, 455, 634: the call, on a deep copy of the caller's definition.
Substitute ==
    /\ pc = "call"
    /\ LET r == substitute_parameters(model_definition, substitute_arg) IN
       /\ raised' = r.raised
       /\ parsed_parameters' = get_parameters_dict(substitute_arg).value
       /\ modified_model_definition' = r.value
       /\ pc' = IF r.raised = None THEN "returned" ELSE "raised"
    /\ UNCHANGED <<model_definition, substitute_arg, hyperopt_params, resolved,
                   np_random, instances>>
    /\ UNCHANGED stratVars
    /\ UNCHANGED <<executor, sampled_parameters, metric_scores, hyperopt_parameters,
                   tasks, hyperopt_results, returned, gpus, num_workers, gpu_fraction,
                   queue, queue_at_batch, trial_runner, completed, dispatched>>

NextSubstitute == Substitute

SpecSubstitute == InitSubstitute /\ [][NextSubstitute]_vars

(***************************************************************************)
(* Properties of substitute_parameters (checked under SpecSubstitute)      *)
(***************************************************************************)
HasSections(d, sections) == \A section \in sections : Has(d, section)

\* As claimed: with an empty sample and a definition that has input
\* features, output features, a combiner section and a training section,
\* the call returns a definition equal to its input.
C15_EmptySampleIdentity_FourSections ==
    (pc # "call" /\ substitute_arg = <<>>
        /\ HasSections(model_definition,
                       {"input_features", "output_features", "combiner", "training"})) =>
        /\ raised = None
        /\ pc = "returned"
        /\ modified_model_definition = model_definition

\* C15 (amended): with an empty sample and a definition that has input
\* features, output features, a combiner section, a training section and a
\* preprocessing section, the call returns a definition equal to its input.
C15_EmptySampleIdentity ==
    (pc # "call" /\ substitute_arg = <<>>
        /\ HasSections(model_definition,
                       {"input_features", "output_features", "combiner", "training",
                        "preprocessing"})) =>
        /\ raised = None
        /\ pc = "returned"
        /\ modified_model_definition = model_definition

\* The call with an empty sample has returned a definition with a nested
\* dict in its combiner section.
C15_Witness ==
    /\ pc = "returned"
    /\ substitute_arg = <<>>
    /\ model_definition = NestedModelDefinition
    /\ modified_model_definition = NestedModelDefinition

\* The first path segments of the names of the sample.
FirstSegments == {substitute_arg[i][1][1] : i \in DOMAIN substitute_arg}

FeatureNames == {"in1", "out1"}

\* The features of a definition: the list each is in and its name.
FeaturesOf(d) ==
    {f \in FeatureLists \X FeatureNames : Has(d, f[1]) /\ Has(d.items[f[1]], f[2])}

\* C31: after substitute_parameters has returned, an input feature, an
\* output feature, the combiner section or the training section whose name
\* is not a first path segment of any name of the sample has the keys and
\* values it had before the call.
C31_UnnamedSectionsUntouched ==
    pc = "returned" =>
        /\ \A section \in {"combiner", "training"} \ FirstSegments :
              Has(model_definition, section) =>
                  /\ Has(modified_model_definition, section)
                  /\ modified_model_definition.items[section]
                        = model_definition.items[section]
        /\ \A f \in FeaturesOf(model_definition) :
              f[2] \notin FirstSegments =>
                  /\ Has(modified_model_definition, f[1])
                  /\ Has(modified_model_definition.items[f[1]], f[2])
                  /\ modified_model_definition.items[f[1]].items[f[2]]
                        = model_definition.items[f[1]].items[f[2]]

\* The call has written the combiner section and an input feature, and
\* the training section and the output feature, not named, are as before.
C31_Witness ==
    /\ pc = "returned"
    /\ FirstSegments = {"combiner", "in1"}
    /\ model_definition = NestedModelDefinition
    /\ modified_model_definition.items["combiner"] # model_definition.items["combiner"]
    /\ modified_model_definition.items["input_features"].items["in1"]
          # model_definition.items["input_features"].items["in1"]
    /\ modified_model_definition.items["training"] = model_definition.items["training"]
    /\ modified_model_definition.items["output_features"]
          = model_definition.items["output_features"]

\* d with only the top-level sections in `sections`.
Restricted(d, sections) == Dict([k \in DOMAIN d.items \cap sections |-> d.items[k]])

\* The call neither reads, requires nor writes a top-level section outside
\* `sections`: it ends as the call on the definition restricted to them
\* ends, a returned definition has in these sections what that call
\* returns, and every other section is as before.
ConsultsOnly(sections) ==
    pc # "call" =>
        LET r == substitute_parameters(Restricted(model_definition, sections),
                                       substitute_arg)
        IN  /\ raised = r.raised
            /\ pc = "returned" =>
                 /\ Restricted(modified_model_definition, sections) = r.value
                 /\ \A section \in DOMAIN model_definition.items \ sections :
                       /\ Has(modified_model_definition, section)
                       /\ modified_model_definition.items[section]
                             = model_definition.items[section]

FourKinds == {"input_features", "output_features", "combiner", "training"}

\* As claimed: substitute_parameters consults the input features, the
\* output features, the combiner section and the training section, and
\* neither reads, requires nor writes any other top-level section.
C32_ConsultsFourKinds == ConsultsOnly(FourKinds)

\* C32 (amended): substitute_parameters consults the input features, the
\* output features, the combiner section, the training section and the
\* preprocessing section, and neither reads, requires nor writes any other
\* top-level section of the model definition.
C32_ConsultsFiveKinds == ConsultsOnly(FourKinds \cup {"preprocessing"})

\* The call has returned for a sample that names the preprocessing section
\* and a section of the definition the function does not go through: the
\* first is written, the second is as before.
C32_Witness ==
    /\ pc = "returned"
    /\ FirstSegments = {"preprocessing", "other"}
    /\ Has(model_definition, "other")
    /\ modified_model_definition.items["preprocessing"]
          # model_definition.items["preprocessing"]
    /\ modified_model_definition.items["other"] = model_definition.items["other"]

\* What the returned call went through: the name of each section and
\* feature, what it was before the call and what it is after.
Consulted ==
    {<<section, model_definition.items[section],
       modified_model_definition.items[section]>> :
        section \in {"combiner", "training", "preprocessing"}}
    \cup {<<f[2], model_definition.items[f[1]].items[f[2]],
            modified_model_definition.items[f[1]].items[f[2]]>> :
            f \in FeaturesOf(model_definition)}

\* after is before with params merged one level deep.
MergedOneLevel(before, params, after) ==
    /\ DOMAIN after.items = DOMAIN before.items \cup DOMAIN params.items
    /\ \A key \in DOMAIN params.items :
          LET value == params.items[key] IN
          IF ~IsDict(value) THEN after.items[key] = value
          ELSE /\ IsDict(after.items[key])
               /\ DOMAIN after.items[key].items
                     = DOMAIN before.items[key].items \cup DOMAIN value.items
               /\ \A sub_key \in DOMAIN value.items :
                     after.items[key].items[sub_key] = value.items[sub_key]
               /\ \A sub_key \in DOMAIN before.items[key].items \ DOMAIN value.items :
                     after.items[key].items[sub_key] = before.items[key].items[sub_key]
    /\ \A key \in DOMAIN before.items \ DOMAIN params.items :
          after.items[key] = before.items[key]

\* C33: after substitute_parameters has returned, every section or feature
\* named in the sample is the section before the call with the sampled
\* values merged one level deep: under a key with a scalar sampled value is
\* that value, under a key with a dict sampled value the sub-keys the dict
\* names have its values and the other sub-keys their previous values, and
\* every other key has its previous value.
C33_MergesOneLevel ==
    pc = "returned" =>
        \A c \in Consulted :
            Has(parsed_parameters, c[1]) =>
                MergedOneLevel(c[2], parsed_parameters.items[c[1]], c[3])

\* The call has written a scalar key and a sub-key of the nested dict of
\* the combiner section; the other key and the other sub-key are as before.
C33_Witness ==
    /\ pc = "returned"
    /\ model_definition = NestedModelDefinition
    /\ substitute_arg = <<<<<<"combiner", "fc", "size">>, Scalar(1)>>,
                          <<<<"combiner", "num_fc_layers">>, Scalar(2)>>>>
    /\ LET combiner == modified_model_definition.items["combiner"] IN
       /\ combiner.items["num_fc_layers"] = Scalar(2)
       /\ combiner.items["fc_size"] = Scalar(0)
       /\ combiner.items["fc"].items["size"] = Scalar(1)
       /\ combiner.items["fc"].items["dropout"] = Scalar(0)

\* a is a proper prefix of b.
IsProperPrefix(a, b) == Len(a) < Len(b) /\ \A k \in 1..Len(a) : a[k] = b[k]

\* Items i and j of the sample have colliding names.
Collide(i, j) ==
    \/ IsProperPrefix(substitute_arg[i][1], substitute_arg[j][1])
    \/ IsProperPrefix(substitute_arg[j][1], substitute_arg[i][1])

\* What following the path from d reaches: one value, or nothing.
RECURSIVE ValuesAt(_, _)
ValuesAt(d, path) ==
    IF path = <<>> THEN {d}
    ELSE IF IsDict(d) /\ Has(d, Head(path))
         THEN ValuesAt(d.items[Head(path)], Tail(path))
         ELSE {}

\* C34, as claimed: when two names of the sample collide, one being a
\* proper prefix of the other, get_parameters_dict completes without error
\* whichever comes first and the entry written last is in the mapping.
C34_CollisionLastWins ==
    pc # "call" =>
        \A i, j \in DOMAIN substitute_arg :
            (i < j /\ Collide(i, j)) =>
                /\ get_parameters_dict(substitute_arg).raised = None
                /\ (j = Len(substitute_arg) =>
                       ValuesAt(parsed_parameters, substitute_arg[j][1])
                          = {substitute_arg[j][2]})

\* No name of the sample is a proper prefix of another.
NoCollision == \A i, j \in DOMAIN substitute_arg : ~Collide(i, j)

\* C35: for a sample whose names do not collide, get_parameters_dict
\* completes and the mapping it builds round-trips: following the segments
\* of each name reaches that name's sampled value, and the leaves of the
\* mapping are the (name, value) items of the sample and nothing else.
C35_NestedMappingRoundTrips ==
    (pc # "call" /\ NoCollision) =>
        /\ get_parameters_dict(substitute_arg).raised = None
        /\ \A i \in DOMAIN substitute_arg :
              ValuesAt(parsed_parameters, substitute_arg[i][1]) = {substitute_arg[i][2]}
        /\ Leaves(parsed_parameters, <<>>)
              = {<<substitute_arg[i][1], substitute_arg[i][2].v>> : i \in DOMAIN substitute_arg}

\* The mapping was built from two names that share their first segment and
\* holds both values, one of them two levels down.
C35_Witness ==
    /\ pc # "call"
    /\ substitute_arg = <<<<<<"combiner", "num_fc_layers">>, Scalar(1)>>,
                          <<<<"combiner", "fc", "size">>, Scalar(2)>>>>
    /\ parsed_parameters
          = Dict(("combiner" :>
                    Dict(("num_fc_layers" :> Scalar(1))
                         @@ ("fc" :> Dict(("size" :> Scalar(2)))))))

(***************************************************************************)
(* SpecConfig: the hyperopt section of a configuration is resolved by      *)
(* update_hyperopt_params_with_defaults(hyperopt_params); then the         *)
(* strategy and the executor are built and the first trial is run.         *)
(***************************************************************************)
STRATEGY == "strategy"

EXECUTOR == "executor"

\* ludwig.utils.misc.set_default_value: dictionary[key] = value unless the
\* key is there.
set_default_value(dictionary, key, value) ==
    IF key \in DOMAIN dictionary THEN dictionary ELSE (key :> value) @@ dictionary

\* ludwig.utils.misc.set_default_values: set_default_value for every item.
set_default_values(dictionary, default_value_dictionary) ==
    dictionary @@ default_value_dictionary

NotRegistered == "not registered"

\* ludwig.utils.misc.get_from_registry: the class registered under key, or
\* an error that names the registered keys.
get_from_registry(key, registry) ==
    IF key \in DOMAIN registry
    THEN [raised |-> None, value |-> registry[key], choices |-> {}]
    ELSE [raised |-> NotRegistered, value |-> None, choices |-> DOMAIN registry]

strategy_registry ==
    [random |-> "RandomStrategy", pysot |-> "PySOTStrategy"]

\* Mutant: the registry lacks FiberExecutor.
executor_registry_NoFiber ==
    [serial |-> "SerialExecutor", parallel |-> "ParallelExecutor"]

executor_registry ==
    [serial |-> "SerialExecutor", parallel |-> "ParallelExecutor",
     fiber |-> "FiberExecutor"]

Lookup(registry, key, r) ==
    [registry |-> registry, key |-> key, raised |-> r.raised, value |-> r.value]

get_build_hyperopt_strategy(strategy_type) ==
    get_from_registry(strategy_type, strategy_registry)

get_build_hyperopt_executor(executor_type) ==
    get_from_registry(executor_type, executor_registry)

\* The class attributes of the registered classes: what
\* {k: v for k, v in cls.__dict__.items() if k in get_class_attributes(cls)}
\* holds.  epsilon = 0.01 is the fraction 1/100.
ClassDefaults ==
    [RandomStrategy |-> [num_samples |-> 10],
     PySOTStrategy |-> <<>>,
     SerialExecutor |-> <<>>,
     ParallelExecutor |-> [num_workers |-> 2, epsilon |-> <<1, 100>>],
     FiberExecutor |-> [num_workers |-> 2, fiber_backend |-> "local"]]

\* Lines 681-688: the defaults of the top level and the strategy's type.
WithTopDefaults(params) ==
    LET p1 == set_default_value(params, STRATEGY, <<>>)
        p2 == set_default_value(p1, EXECUTOR, <<>>)
        p3 == set_default_value(p2, "split", "validation")
        p4 == set_default_value(p3, "output_feature", "combined")
        p5 == set_default_value(p4, "metric", "loss")
        p6 == set_default_value(p5, "goal", MINIMIZE)
    IN  [p6 EXCEPT ![STRATEGY] = set_default_values(@, [type |-> "random"])]

\* Lines 690-694, given the registry's answer: the strategy's defaults.
WithStrategyDefaults(params, strategy_class) ==
    [params EXCEPT ![STRATEGY] = set_default_values(@, ClassDefaults[strategy_class])]

\* Line 696.
WithExecutorType(params) ==
    [params EXCEPT ![EXECUTOR] = set_default_values(@, [type |-> "serial"])]

\* Lines 698-702, given the registry's answer: the executor's defaults.
WithExecutorDefaults(params, executor_class) ==
    [params EXCEPT ![EXECUTOR] = set_default_values(@, ClassDefaults[executor_class])]

\* update_hyperopt_params_with_defaults: the dictionary as the call leaves
\* it (it is changed in place), the exception that left the call, and the
\* registry lookups made.
update_hyperopt_params_with_defaults(params) ==
    LET p1 == WithTopDefaults(params)
        strategy_answer == get_from_registry(p1[STRATEGY]["type"], strategy_registry)
        l1 == Lookup(STRATEGY, p1[STRATEGY]["type"], strategy_answer)
        p2 == WithExecutorType(WithStrategyDefaults(p1, strategy_answer.value))
        executor_answer == get_from_registry(p2[EXECUTOR]["type"], executor_registry)
        l2 == Lookup(EXECUTOR, p2[EXECUTOR]["type"], executor_answer)
    IN  IF strategy_answer.raised # None
        THEN [raised |-> strategy_answer.raised, params |-> p1, lookups |-> <<l1>>]
        ELSE IF executor_answer.raised # None
        THEN [raised |-> executor_answer.raised, params |-> p2, lookups |-> <<l1, l2>>]
        ELSE [raised |-> None, params |-> WithExecutorDefaults(p2, executor_answer.value),
              lookups |-> <<l1, l2>>]

\* The strategy and executor sections a configuration may carry: none, an
\* empty one, or one that names a type (registered or not).
StrategySections ==
    {<<>>} \cup {[type |-> name] : name \in {"random", "pysot", "grid"}}
           \cup {[type |-> name, num_samples |-> 1] : name \in {"random", "pysot", "grid"}}

ExecutorSections ==
    {<<>>} \cup {[type |-> name] : name \in {"serial", "parallel", "fiber", "ray"}}

\* The hyperopt sections: each key given or left out.
HyperoptParams ==
    {strategy @@ exec @@ goal :
        strategy \in {<<>>} \cup {STRATEGY :> section : section \in StrategySections},
        exec \in {<<>>} \cup {EXECUTOR :> section : section \in ExecutorSections},
        goal \in {<<>>, "goal" :> MAXIMIZE}}

\* The space searched by the strategy that is built: one point.
ConfigParameterSpace == [n \in {<<"combiner", "num_fc_layers">>} |-> {1}]

InitConfig ==
    /\ pc = "config"
    /\ hyperopt_params \in HyperoptParams
    /\ resolved = <<>>
    /\ raised = None
    /\ substitute_arg = <<>>
    /\ parsed_parameters = EmptyDict
    /\ modified_model_definition = EmptyDict
    /\ np_random = 0
    /\ instances = <<>>
    /\ model_definition = EmptyDict
    /\ NoStrategy
    /\ NoExecutor

\* What the steps of SpecConfig leave alone.
configIdle ==
    <<sampled_parameters, metric_scores, hyperopt_parameters, tasks,
      hyperopt_results, returned, gpus, num_workers, gpu_fraction, queue,
      queue_at_batch, trial_runner, model_definition, completed,
      substitute_arg, parsed_parameters, modified_model_definition, np_random, instances,
      update_calls>>

\* update_hyperopt_params_with_defaults(hyperopt_params)
Config_Resolve ==
    /\ pc = "config"
    /\ LET r == update_hyperopt_params_with_defaults(hyperopt_params) IN
       /\ hyperopt_params' = r.params
       /\ resolved' = resolved \o r.lookups
       /\ raised' = r.raised
       /\ pc' = IF r.raised = None THEN "resolved" ELSE "raised"
    /\ UNCHANGED <<hyperopt_strategy, calls, handed_out, executor, dispatched>>
    /\ UNCHANGED configIdle

\* cls(goal, parameters, **hyperopt_params["strategy"])
BuildStrategy(cls, goal, kwargs) ==
    LET n == IF "num_samples" \in DOMAIN kwargs THEN kwargs["num_samples"] ELSE 10 IN
    IF cls = "RandomStrategy"
    THEN {RandomStrategy(goal, ConfigParameterSpace, n, drawn) :
            drawn \in DetermineSamples(ConfigParameterSpace, n)}
    ELSE {PySOTStrategy(goal, ConfigParameterSpace, n)}

\* The strategy and the executor are built from the resolved section:
\* get_build_hyperopt_strategy(type)(goal, parameters, **strategy) and
\* get_build_hyperopt_executor(type)(hyperopt_strategy, ..., **executor).
Config_Build ==
    /\ pc = "resolved"
    /\ LET s == get_build_hyperopt_strategy(hyperopt_params[STRATEGY]["type"])
           e == get_build_hyperopt_executor(hyperopt_params[EXECUTOR]["type"])
           l1 == Lookup(STRATEGY, hyperopt_params[STRATEGY]["type"], s)
           l2 == Lookup(EXECUTOR, hyperopt_params[EXECUTOR]["type"], e)
       IN  IF s.raised # None \/ e.raised # None
           THEN /\ raised' = NotRegistered
                /\ resolved' = IF s.raised # None THEN Append(resolved, l1)
                               ELSE resolved \o <<l1, l2>>
                /\ pc' = "raised"
                /\ UNCHANGED <<hyperopt_strategy, executor>>
           ELSE /\ hyperopt_strategy' \in
                      BuildStrategy(s.value, hyperopt_params["goal"],
                                    hyperopt_params[STRATEGY])
                /\ executor' = hyperopt_params[EXECUTOR]["type"]
                /\ resolved' = resolved \o <<l1, l2>>
                /\ pc' = "built"
                /\ UNCHANGED raised
    /\ UNCHANGED <<hyperopt_params, calls, handed_out, dispatched>>
    /\ UNCHANGED configIdle

\* hyperopt_executor.execute(...): the first sample is drawn and its trial
\* is started.
Config_FirstTrial ==
    /\ pc = "built"
    /\ \E suggestions \in [1..1 -> SampleSpace(hyperopt_strategy.parameters)] :
          LET r == sample_batch(hyperopt_strategy, 1, suggestions) IN
          /\ hyperopt_strategy' = r.strategy
          /\ handed_out' = handed_out \o r.value
          /\ calls' = Append(calls, Call("sample_batch", 1, r))
          /\ dispatched' = IF r.raised = None THEN <<1>> ELSE dispatched
          /\ pc' = IF r.raised = None THEN "trials" ELSE "raised"
          /\ raised' = r.raised
    /\ UNCHANGED <<hyperopt_params, resolved, executor>>
    /\ UNCHANGED configIdle

NextConfig == Config_Resolve \/ Config_Build \/ Config_FirstTrial

SpecConfig == InitConfig /\ [][NextConfig]_vars

(***************************************************************************)
(* Properties of the registries (checked under SpecConfig)                 *)
(***************************************************************************)
\* The names the registries are to know, and the class of each.
RegisteredNames ==
    [strategy |-> {"random", "pysot"}, executor |-> {"serial", "parallel", "fiber"}]

RegisteredClass ==
    [random |-> "RandomStrategy", pysot |-> "PySOTStrategy",
     serial |-> "SerialExecutor", parallel |-> "ParallelExecutor",
     fiber |-> "FiberExecutor"]

\* C19: a lookup of a registered strategy or executor name answers the
\* name's class; a lookup of any other name fails with the "not registered"
\* error, it is the last thing done, and no sample has been drawn and no
\* trial started.
C19_UnregisteredFailsFast ==
    \A i \in DOMAIN resolved :
        IF resolved[i].key \in RegisteredNames[resolved[i].registry]
        THEN /\ resolved[i].raised = None
             /\ resolved[i].value = RegisteredClass[resolved[i].key]
        ELSE /\ resolved[i].raised = NotRegistered
             /\ i = Len(resolved)
             /\ pc = "raised"
             /\ raised = NotRegistered
             /\ calls = <<>>
             /\ handed_out = <<>>
             /\ dispatched = <<>>

\* A strategy name was resolved to its class and the executor's name, not
\* registered, then made the resolution fail.
C19_Witness ==
    /\ pc = "raised"
    /\ Len(resolved) = 2
    /\ resolved[1].key = "pysot"
    /\ resolved[1].value = "PySOTStrategy"
    /\ resolved[2].key = "ray"
    /\ resolved[2].raised = NotRegistered

(***************************************************************************)
(* SpecSeed: a program that constructs RandomStrategy objects, passing a   *)
(* random seed, and draws their samples, while it also uses numpy's global *)
(* random generator for other purposes.                                    *)
(***************************************************************************)
\* The number of states of the generator.
RngModulus == 8

\* One step of np.random's global generator.  A linear congruential
\* generator of full period stands for the Mersenne Twister.
np_random_next(state) == (5 * state + 3) % RngModulus

\* np.random.rand(1, k): k numbers of [0, 1), in RngModulus-ths, and the
\* state the generator is left in.
RECURSIVE np_random_rand(_, _)
np_random_rand(state, k) ==
    IF k = 0 THEN [x |-> <<>>, state |-> state]
    ELSE LET r == np_random_rand(np_random_next(state), k - 1) IN
         [x |-> <<np_random_next(state)>> \o r.x, state |-> r.state]

\* np.random.seed(seed)
np_random_seed(seed) == seed % RngModulus

\* The k-th smallest member of S.
Nth(S, k) == CHOOSE v \in S : Cardinality({w \in S : w < v}) = k - 1

\* The dimensions of JointSpace(parameters), in order.
Dimensions(parameters) ==
    CHOOSE f \in [1..Cardinality(DOMAIN parameters) -> DOMAIN parameters] :
        \A i, j \in DOMAIN f : i # j => f[i] # f[j]

\* Lines 103-105: x is spread over the bounds and unwarped; the number
\* x[i] of [0, 1) picks among the values of dimension i.
Unwarp(parameters, x) ==
    [name \in DOMAIN parameters |->
        LET i == CHOOSE d \in DOMAIN x : Dimensions(parameters)[d] = name IN
        Nth(parameters[name],
            (x[i] * Cardinality(parameters[name])) \div RngModulus + 1)]

\* RandomStrategy._determine_samples, drawing from the global generator in
\* the given state: the samples, and the state the generator is left in.
RECURSIVE RandomStrategy_determine_samples(_, _, _)
RandomStrategy_determine_samples(parameters, n, state) ==
    IF n = 0 THEN [samples |-> <<>>, state |-> state]
    ELSE LET r == np_random_rand(state, Cardinality(DOMAIN parameters))
             rest == RandomStrategy_determine_samples(parameters, n - 1, r.state)
         IN  [samples |-> <<Unwarp(parameters, r.x)>> \o rest.samples,
              state |-> rest.state]

\* The random seeds a caller passes.
Seeds == {7, 42}

\* The budgets a caller passes.
SeedNumSamples == {1, 2}

InitSeed ==
    /\ pc = "program"
    /\ np_random \in 0..(RngModulus - 1)
    /\ instances = <<>>
    /\ substitute_arg = <<>>
    /\ parsed_parameters = EmptyDict
    /\ modified_model_definition = EmptyDict
    /\ raised = None
    /\ hyperopt_params = <<>>
    /\ resolved = <<>>
    /\ model_definition = EmptyDict
    /\ NoStrategy
    /\ NoExecutor

\* What the steps of SpecSeed leave alone.
seedIdle ==
    <<hyperopt_strategy, calls, handed_out, update_calls, execVars,
      substitute_arg, parsed_parameters, modified_model_definition, raised,
      hyperopt_params, resolved>>

\* RandomStrategy(goal, parameters, num_samples=n, seed=seed): seed lands
\* in **kwargs and is not used; the samples are drawn from the global
\* generator as it stands.
Seed_Construct ==
    /\ Len(instances) < MaxInstances
    /\ \E seed \in Seeds, n \in SeedNumSamples :
          LET r == RandomStrategy_determine_samples(SmallParameterSpace, n, np_random) IN
          /\ instances' = Append(instances,
                                 [seed |-> seed,
                                  strategy |-> RandomStrategy(MINIMIZE, SmallParameterSpace,
                                                              n, r.samples),
                                  out |-> <<>>])
          /\ np_random' = r.state
    /\ UNCHANGED seedIdle

\* instances[i].sample()
Seed_Sample ==
    /\ \E i \in DOMAIN instances :
          LET r == RandomStrategy_sample(instances[i].strategy) IN
          /\ r.raised = None
          /\ instances' = [instances EXCEPT ![i].strategy = r.strategy,
                                            ![i].out = Append(@, r.value)]
    /\ UNCHANGED np_random
    /\ UNCHANGED seedIdle

\* Elsewhere the program draws a number from np.random.
Seed_ProgramDraws ==
    /\ np_random' = np_random_rand(np_random, 1).state
    /\ UNCHANGED instances
    /\ UNCHANGED seedIdle

\* Elsewhere the program calls np.random.seed(seed).
Seed_ProgramSeeds ==
    /\ \E seed \in Seeds : np_random' = np_random_seed(seed)
    /\ UNCHANGED instances
    /\ UNCHANGED seedIdle

NextSeed == Seed_Construct \/ Seed_Sample \/ Seed_ProgramDraws \/ Seed_ProgramSeeds

SpecSeed == InitSeed /\ [][NextSeed]_vars

(***************************************************************************)
(* Properties of RandomStrategy's randomness (checked under SpecSeed)      *)
(***************************************************************************)
\* C20: two RandomStrategy objects constructed with the same parameter
\* space, the same num_samples and the same random seed return the same
\* samples: once both are exhausted, the sequences they returned are equal.
C20_SameSeedSameSamples ==
    \A i, j \in DOMAIN instances :
        (/\ instances[i].seed = instances[j].seed
         /\ instances[i].strategy.parameters = instances[j].strategy.parameters
         /\ instances[i].strategy.num_samples = instances[j].strategy.num_samples
         /\ finished(instances[i].strategy)
         /\ finished(instances[j].strategy)) =>
            instances[i].out = instances[j].out

(***************************************************************************)
(* SpecGpuSetup: the part of ParallelExecutor.execute() before the loop    *)
(* (lines 401-448), for pools much larger than the device list too.        *)
(***************************************************************************)
\* num_workers: small pools, and pools of about 1 / (2 * epsilon) and
\* 1 / epsilon workers per device.
SetupWorkers == {1, 2, 3, 4, 5, 50, 51, 100, 101, 200}

\* gpu_fraction: 1.0 (the default), 0.5, 0.7, 2.0 and 0.25
SetupFractions == {<<1, 1>>, <<1, 2>>, <<7, 10>>, <<2, 1>>, <<1, 4>>}

InitGpuSetup ==
    /\ executor = "parallel"
    /\ pc = "start"
    /\ gpus \in GpuLists
    /\ num_workers \in SetupWorkers
    /\ gpu_fraction \in SetupFractions
    /\ \E n \in 0..1 : NewStrategy(PySOTStrategy(MINIMIZE, SmallParameterSpace, n))
    /\ sampled_parameters = <<>>
    /\ metric_scores = <<>>
    /\ hyperopt_parameters = <<>>
    /\ tasks = <<>>
    /\ hyperopt_results = <<>>
    /\ returned = <<>>
    /\ queue = <<>>
    /\ queue_at_batch = <<>>
    /\ trial_runner = <<>>
    /\ model_definition = BaseModelDefinition
    /\ completed = <<>>
    /\ dispatched = <<>>
    /\ UtilIdle

NextGpuSetup == Execute_Setup

SpecGpuSetup == InitGpuSetup /\ [][NextGpuSetup]_vars

(***************************************************************************)
(* Properties of the GPU setup (checked under SpecGpuSetup)                *)
(***************************************************************************)
\* The setup has been done, by a pool larger than the device list.
SetupDoneFewerGpus == pc # "start" /\ Len(gpus) < num_workers

\* C23: with fewer devices than workers the fraction the executor ends up
\* using is positive and not below epsilon, so int(1 / fraction) is at
\* least 1 and the queue holds a token.
C23_FractionAtLeastEpsilon ==
    SetupDoneFewerGpus =>
        /\ RatLess(<<0, 1>>, gpu_fraction)
        /\ ~RatLess(gpu_fraction, epsilon)
        /\ ProcessPerGpu(gpu_fraction) >= 1
        /\ queue # <<>>

\* The setup is about to be done by a pool larger than the device list.
SetupWithFewerGpus == pc = "start" /\ GpuMode /\ Len(gpus) < num_workers

\* As claimed: with fewer devices than workers the setup never enlarges
\* gpu_fraction.
C24_AdjustmentOnlyShrinks ==
    [][SetupWithFewerGpus => ~RatLess(gpu_fraction, gpu_fraction')]_vars

\* len(device_ids) / num_workers - epsilon
ReducedRatio == RatSub(<<Len(gpus), num_workers>>, epsilon)

\* C24 (amended): with fewer devices than workers the setup never enlarges
\* gpu_fraction, unless len(device_ids) / num_workers - epsilon is above 0.5
\* and below the caller's gpu_fraction: then gpu_fraction is set to 1.
C24_AdjustmentShrinksOrSetsOne ==
    [][SetupWithFewerGpus =>
          IF RatLess(<<1, 2>>, ReducedRatio) /\ RatLess(ReducedRatio, gpu_fraction)
          THEN gpu_fraction' = <<1, 1>>
          ELSE ~RatLess(gpu_fraction, gpu_fraction')]_vars

\* The setup has shrunk the fraction of a pool of 3 workers on 1 device
\* below 0.5.
C24_Witness ==
    /\ SetupDoneFewerGpus
    /\ pc = "loop"
    /\ Len(gpus) = 1
    /\ num_workers = 3
    /\ RatLess(gpu_fraction, <<1, 2>>)
    /\ queue # <<>>

\* floor(1 / q), for a rational q = <<p, d>> with d > 0 and p # 0
FloorOfInverse(q) ==
    IF q[1] > 0 THEN q[2] \div q[1]
    ELSE 0 - ((q[2] + (0 - q[1]) - 1) \div (0 - q[1]))

\* The number of tokens on the queue that name device id.
TokensOf(id) == Cardinality({i \in DOMAIN queue : queue[i] = id})

\* C25: after the setup the queue holds floor(1 / gpu_fraction) tokens of
\* each device id and no other, len(device_ids) * floor(1 / gpu_fraction)
\* in all, for the gpu_fraction the setup arrived at; for a pool no larger
\* than the device list that is the caller's gpu_fraction.
C25_QueueSizedByFraction ==
    [][(pc = "start" /\ GpuMode) =>
          /\ pc' = "loop"
          /\ gpu_fraction'[1] # 0
          /\ Len(queue') = Len(gpus) * FloorOfInverse(gpu_fraction')
          /\ \A i \in DOMAIN gpus : TokensOf(gpus[i])' = FloorOfInverse(gpu_fraction')
          /\ Len(gpus) >= num_workers => gpu_fraction' = gpu_fraction]_vars

(***************************************************************************)
(* Properties of the GPU token queue (checked under Spec)                  *)
(***************************************************************************)
\* The trials that hold a token of device id.
HoldersOf(id) == {t \in TaskIn({"running"}) : tasks[t].token = <<id>>}

\* C26: in GPU mode, once the queue is filled, at most
\* floor(1 / gpu_fraction) trials hold a token of any one device, a trial
\* holds one token while it runs and none otherwise, and the tokens on the
\* queue and the tokens held are, for each device,
\* floor(1 / gpu_fraction), the number put on the queue.
C26_TokensBoundConcurrency ==
    (GpuMode /\ pc # "start") =>
        /\ \A i \in DOMAIN gpus :
              /\ Cardinality(HoldersOf(gpus[i])) <= FloorOfInverse(gpu_fraction)
              /\ TokensOf(gpus[i]) + Cardinality(HoldersOf(gpus[i]))
                    = FloorOfInverse(gpu_fraction)
        /\ \A t \in DOMAIN tasks :
              IF tasks[t].state = "running"
              THEN Len(tasks[t].token) = 1 /\ \E i \in DOMAIN gpus : tasks[t].token[1] = gpus[i]
              ELSE tasks[t].state \in {"pending", "waiting"} => tasks[t].token = <<>>
        /\ Len(queue) + Cardinality(TaskIn({"running"}))
              = Len(gpus) * FloorOfInverse(gpu_fraction)

\* Two trials run at once on tokens of the one device, which admits two
\* processes, and the queue is empty.
C26_Witness ==
    /\ GpuMode
    /\ pc = "map"
    /\ Len(gpus) = 1
    /\ FloorOfInverse(gpu_fraction) = 2
    /\ Cardinality(HoldersOf(gpus[1])) = 2
    /\ queue = <<>>

\* C27: in GPU mode no state has every worker that has taken a trial
\* blocked in queue.get() on an empty queue while no trial holds a token
\* that it could put back.
C27_NoWorkerBlockedForever ==
    ~(/\ GpuMode
      /\ pc = "map"
      /\ TaskIn({"waiting"}) # {}
      /\ queue = <<>>
      /\ TaskIn({"running"}) = {})

\* C28: in GPU mode the runner is called for a trial with gpus set to the
\* one device id of the token the trial's worker got from the queue.
C28_RunsOnItsToken ==
    GpuMode =>
        \A t \in TaskIn({"running", "done", "failed"}) :
            /\ Len(tasks[t].token) = 1
            /\ tasks[t].gpus = tasks[t].token

\* With two devices in the caller's list, two trials run at once, the first
\* on device 1 and the second on device 0.
C28_Witness ==
    /\ GpuMode
    /\ Len(gpus) = 2
    /\ TaskIn({"running"}) = {1, 2}
    /\ tasks[1].gpus = <<1>>
    /\ tasks[2].gpus = <<0>>

(***************************************************************************)
(* Properties of the ranking (checked under Spec)                          *)
(***************************************************************************)
\* The TrialResults of a list with the given metric_score, in list order.
WithScore(results, score) == SelectSeq(results, LAMBDA r : r.metric_score = score)

\* C39: the ranking is stable for ties.  Under both goals the TrialResults
\* with one metric_score are returned in the order in which they were
\* appended to the accumulated list.
C39_StableRanking ==
    [][(pc = "sort" /\ pc' = "returned") =>
         \A score \in MetricScores :
             WithScore(returned', score) = WithScore(hyperopt_results, score)]_vars

\* A SerialExecutor has returned, best first, the results of three trials:
\* the first and the third sample, which differ, scored the same and come
\* back in that order after the second.
C39_Witness ==
    /\ pc = "returned"
    /\ executor = "serial"
    /\ hyperopt_strategy.goal = MAXIMIZE
    /\ Len(handed_out) = 3
    /\ handed_out[1] # handed_out[3]
    /\ Scores(returned) = <<9, 5, 5>>
    /\ Parameters(returned) = <<handed_out[2], handed_out[1], handed_out[3]>>

(***************************************************************************)
(* Properties of execute() on a finished strategy                          *)
(***************************************************************************)
\* The strategy was finished when execute() was called: it is finished
\* and has handed out nothing in this call.
StartedFinished == finished(hyperopt_strategy) /\ handed_out = <<>>

\* C38, as claimed: a step of execute() on a strategy that was finished
\* when the call started does not end the call with an exception, requests
\* no sample, starts no trial and calls no update, and what the call
\* returns is the empty list.
C38_FinishedStrategyReturnsEmpty ==
    [][StartedFinished =>
        /\ pc' # "raised"
        /\ handed_out' = <<>>
        /\ sampled_parameters' = <<>>
        /\ update_calls' = <<>>
        /\ dispatched' = <<>>
        /\ tasks' = <<>>
        /\ pc' = "returned" => returned' = <<>>]_vars

====
